---- MODULE Spec2Model ----
(***************************************************************************)
(* Bending Light: the white-light accumulation renderer                    *)
(* (WhiteLightCanvasNode in js/prisms/view/PrismBreakView.js).             *)
(*                                                                         *)
(* Number conventions.  A JavaScript number is a record [k, v]:            *)
(*   k = "fin": the finite value v; k = "nan": NaN; k = "inf": the         *)
(*   infinity of sign v.                                                   *)
(* Pixel coordinates inside draw are whole pixels.  The positions handed   *)
(* to addToMap and the keys are kept DOUBLED (unit: half a pixel), so that *)
(* x0 + 0.5 stays integral.  Channel sums are in units of 1/ChannelDenom,  *)
(* intensities in units of 1/PowerDenom, and an alpha is represented by    *)
(* its square in units of 1/AlphaDenom (sqrt is monotone on [0,1]).        *)
(* Sums and quotients are exact (no floating-point rounding error).  A ray *)
(* is given by its mapped coordinates, Math.round( modelToViewX/Y( .. ) ), *)
(* which leaves NaN and the infinities as they are.                        *)
(***************************************************************************)
EXTENDS Integers, Sequences, FiniteSets, TLC

\* ------------------------------------------------------------------ bounds
StageWidth == 2
StageHeight == 1
PowerDenom == 2
MaxSteps == 6
MaxFrames == 2

\* ------------------------------------------------------- program constants
KeyXFactor == 17647448
KeyYFactor == 13333
KeyOffset == 33
BrightnessMilli == 17
ColorMax == 255
WhiteLimitTenths == 2
ScaleFactor == 2

ChannelDenom == ColorMax * 1000
AlphaDenom == PowerDenom * ChannelDenom
MaxChannelTenths == 10 - WhiteLimitTenths

\* ------------------------------------------------------ JavaScript numbers
Fin(n) == [k |-> "fin", v |-> n]
NaN == [k |-> "nan", v |-> 0]
Inf(s) == [k |-> "inf", v |-> s]

IsNaN(a) == a.k = "nan"
IsFin(a) == a.k = "fin"

AbsInt(n) == IF n < 0 THEN -n ELSE n

Neg(a) == IF IsNaN(a) THEN NaN ELSE [a EXCEPT !.v = -a.v]

Abs(a) == IF IsNaN(a) THEN NaN ELSE [a EXCEPT !.v = AbsInt(a.v)]

Add(a, b) ==
  IF IsNaN(a) \/ IsNaN(b) THEN NaN
  ELSE IF IsFin(a) /\ IsFin(b) THEN Fin(a.v + b.v)
  ELSE IF IsFin(a) THEN b
  ELSE IF IsFin(b) THEN a
  ELSE IF a.v = b.v THEN a ELSE NaN

Sub(a, b) == Add(a, Neg(b))

SignInt(n) == IF n > 0 THEN 1 ELSE IF n < 0 THEN -1 ELSE 0

Mul(a, b) ==
  IF IsNaN(a) \/ IsNaN(b) THEN NaN
  ELSE IF IsFin(a) /\ IsFin(b) THEN Fin(a.v * b.v)
  ELSE IF SignInt(a.v) * SignInt(b.v) = 0 THEN NaN
  ELSE Inf(SignInt(a.v) * SignInt(b.v))

Lt(a, b) ==
  IF IsNaN(a) \/ IsNaN(b) THEN FALSE
  ELSE IF IsFin(a) /\ IsFin(b) THEN a.v < b.v
  ELSE IF IsFin(a) THEN b.v > 0
  ELSE IF IsFin(b) THEN a.v < 0
  ELSE a.v < b.v

Gt(a, b) == Lt(b, a)

StrictEq(a, b) == ~IsNaN(a) /\ ~IsNaN(b) /\ a = b

\* ----------------------------------------------------------- input domains
Red == [r |-> Fin(255), g |-> Fin(0), b |-> Fin(0), a |-> Fin(AlphaDenom)]
Green == [r |-> Fin(0), g |-> Fin(255), b |-> Fin(0), a |-> Fin(AlphaDenom)]
Black == [r |-> Fin(0), g |-> Fin(0), b |-> Fin(0), a |-> Fin(AlphaDenom)]
Orange == [r |-> Fin(255), g |-> Fin(100), b |-> Fin(20), a |-> Fin(AlphaDenom)]
Colors == {Red, Green, Black, Orange}

\* the smallest power fraction of the grid and the full power
Powers == {1, PowerDenom}

Point(x, y) == [x |-> x, y |-> y]

\* mapped pixel coordinates from one pixel outside the stage on each side
XCoords == {Fin(n) : n \in -1..(StageWidth + 1)}
YCoords == {Fin(n) : n \in -1..(StageHeight + 1)}
Points == {Point(x, y) : x \in XCoords, y \in YCoords}

\* a small in-stage patch on which two rays overlap
PatchPoints == {Point(Fin(0), Fin(0)), Point(Fin(1), Fin(1))}

Malformed == {NaN, Inf(1), Inf(-1)}
MalformedPoints ==
  {Point(x, y) : x \in Malformed, y \in {Fin(0)} \cup Malformed}
    \cup {Point(x, y) : x \in {Fin(0)}, y \in Malformed}

Ray(tip, tail, color, power) ==
  [tip |-> tip, tail |-> tail, color |-> color, powerFraction |-> Fin(power)]

RaySet == {Ray(p, q, c, w) : p \in Points, q \in Points, c \in Colors, w \in Powers}
PatchRaySet ==
  {Ray(p, q, c, w) : p \in PatchPoints, q \in PatchPoints, c \in Colors, w \in Powers}
MalformedRaySet ==
  {Ray(p, q, Red, PowerDenom) : p \in MalformedPoints, q \in Points \cup MalformedPoints}
    \cup {Ray(p, q, Red, PowerDenom) : p \in Points, q \in MalformedPoints}

\* ------------------------------------------------------------------- state
VARIABLES
  whiteLightRays,     \* the ray collection: mapped tip/tail, color object, power
  hashMapPointArray,  \* this.hashMapPointArray: keys in order of creation
  map,                \* paintCanvas' local map: key -> samples
  pc,                 \* position inside paintCanvas: idle, rays, draw, composite
  i,                  \* loop index of paintCanvas (rays, then keys)
  walk,               \* locals of draw: x0, y0, x1, y1, dx, dy, sx, sy, err
  steps,              \* iterations of the while loop of the current draw
  setPixels,          \* log of the setPixel calls of the current frame
  out,                \* fillStyle/fillRect emitted by the current frame
  prevOut,            \* the same of the frame before
  frame               \* number of paintCanvas calls started

\* the prism shape in use and the last call made on it
VARIABLES
  shape,              \* the current shape instance (the instance last returned)
  before,             \* the receiver as it was when the last call was made
  receiver,           \* the receiver as the last call left it
  call,               \* the last call: method name and arguments
  result,             \* what the last call returned or threw
  tracked,            \* the reference point chosen at construction, moved along
  incident            \* the rays the ray tracer may ask about

\* the intensity meter (js/common/model/IntensityMeter.js)
VARIABLES
  meter,              \* reading, sensorPosition, bodyPosition, rayReadings
  meterBefore,        \* the meter as it was when the last call was made
  meterCall,          \* the last call on the meter and the error it threw
  added               \* the readings handed to addRayReading since the last clear

\* a series of the wave sensor chart (unnamed/part_002)
VARIABLES
  series,             \* the value of seriesProperty: the data points in order
  seriesBefore,       \* the same when the last call was made
  seriesCall          \* the last call on the series and its minTime

\* the angle node of the intro screen (js/intro/view/AngleNode.js)
VARIABLES
  rays,               \* the rays list of the model: incoming, reflected, refracted
  showNormal,         \* the value of showNormalProperty
  angleNode,          \* the dirty flag and what the marks, arcs and readouts show
  angleBefore,        \* the same before the last event
  angleEvent          \* the last event: new, added, removed, showNormal, step

\* bumpLeft of the intro screen (js/intro/view/IntroView.js)
VARIABLES
  bump                \* the call of bumpLeft: pc, node, start, position, steps

\* the prism layer of the prisms screen (js/prisms/view/PrismBreakView.js)
VARIABLES
  prisms,             \* prismBreakModel.prisms: the prisms in the play area
  prismLayer,         \* the children of prismLayer: for each node its prism
  layerEvent          \* the last change of the list

\* the velocity sensor node (js/more-tools/view/VelocitySensorNode.js)
VARIABLES
  moreToolsView,      \* the children of beforeLightLayer2 and afterLightLayer2
  velocitySensor,     \* position and scale of the sensor, and whether it is dragged
  sensorCall          \* the last call, the layers before it, whether a call added the node

rendererVars == <<whiteLightRays, hashMapPointArray, map, pc, i, walk, steps,
                  setPixels, out, prevOut, frame>>
shapeVars == <<shape, before, receiver, call, result, tracked, incident>>
meterVars == <<meter, meterBefore, meterCall, added>>
seriesVars == <<series, seriesBefore, seriesCall>>
angleVars == <<rays, showNormal, angleNode, angleBefore, angleEvent>>
bumpVars == <<bump>>
layerVars == <<prisms, prismLayer, layerEvent>>
sensorVars == <<moreToolsView, velocitySensor, sensorCall>>
toolVars == <<meterVars, seriesVars, angleVars, bumpVars, layerVars, sensorVars>>
vars == <<rendererVars, shapeVars, toolVars>>

EmptyMap == [k \in {} |-> 0]
NoWalk == [x0 |-> Fin(0), y0 |-> Fin(0), x1 |-> Fin(0), y1 |-> Fin(0),
           dx |-> Fin(0), dy |-> Fin(0), sx |-> 1, sy |-> 1, err |-> Fin(0)]

\* ------------------------------------------------------ pure helper methods
isOutOfBounds(x0, y0) ==
  Lt(x0, Fin(0)) \/ Lt(y0, Fin(0)) \/ Gt(x0, Fin(StageWidth)) \/ Gt(y0, Fin(StageHeight))

\* doubled position of a pixel coordinate, and the half-pixel offset
Doubled(a) == Mul(Fin(2), a)
PlusHalf(a2) == Add(a2, Fin(1))

\* mutant of KeyPoint: the factor of y0 used for x0 as well
KeyPointSameFactor(x2, y2) ==
  Add(Add(Mul(Fin(KeyYFactor), x2), Mul(Fin(KeyYFactor), y2)), Fin(2 * KeyOffset))

\* keyPoint = 17647448 * x0 + 13333 * y0 + 33, on doubled positions (2 * keyPoint)
KeyPoint(x2, y2) ==
  Add(Add(Mul(Fin(KeyXFactor), x2), Mul(Fin(KeyYFactor), y2)), Fin(2 * KeyOffset))

\* term[ a ] * brightnessFactor, in units of 1/ChannelDenom
Term(channel) == Mul(channel, Fin(BrightnessMilli))

\* a fresh record: [ 0, 0, 0, 0, x0, y0, color ]; color is the ray's own object
Seed(x2, y2, ray) ==
  [s0 |-> Fin(0), s1 |-> Fin(0), s2 |-> Fin(0), s3 |-> Fin(0),
   x |-> x2, y |-> y2, ray |-> ray]

\* mutant of Accumulate: the brightness factor applied to the intensity too
AccumulateScaledIntensity(current, color, intensity) ==
  [current EXCEPT !.s0 = Add(@, Term(color.r)),
                  !.s1 = Add(@, Term(color.g)),
                  !.s2 = Add(@, Term(color.b)),
                  !.s3 = Add(@, Term(intensity))]

\* mutant of Accumulate: the channels assigned instead of summed
AccumulateOverwrite(current, color, intensity) ==
  [current EXCEPT !.s0 = Term(color.r),
                  !.s1 = Term(color.g),
                  !.s2 = Term(color.b),
                  !.s3 = Add(@, intensity)]

Accumulate(current, color, intensity) ==
  [current EXCEPT !.s0 = Add(@, Term(color.r)),
                  !.s1 = Add(@, Term(color.g)),
                  !.s2 = Add(@, Term(color.b)),
                  !.s3 = Add(@, intensity)]

\* addToMap on the pair st = <<map, hashMapPointArray>>
addToMap(st, x2, y2, ray, color, intensity) ==
  LET keyPoint == KeyPoint(x2, y2)
      m == st[1]
      isNew == keyPoint \notin DOMAIN m
      seeded == IF isNew
                THEN [k \in DOMAIN m \cup {keyPoint} |->
                        IF k = keyPoint THEN Seed(x2, y2, ray) ELSE m[k]]
                ELSE m
      keys == IF isNew THEN Append(st[2], keyPoint) ELSE st[2]
  IN <<[seeded EXCEPT ![keyPoint] = Accumulate(@, color, intensity)], keys>>

setPixel(st, x0, y0, ray, child) ==
  LET color == child.color
      intensity == child.powerFraction
      x2 == Doubled(x0)
      y2 == Doubled(y0)
      st1 == addToMap(st, x2, y2, ray, color, intensity)
      st2 == addToMap(st1, PlusHalf(x2), y2, ray, color, intensity)
  IN addToMap(st2, x2, PlusHalf(y2), ray, color, intensity)

\* ------------------------------------------------------------- compositing
\* max: samples[ 0 ], replaced by a larger samples[ 1 ], then a larger samples[ 2 ]
MaxSample(samples) ==
  LET m0 == samples.s0
      m1 == IF Gt(samples.s1, m0) THEN samples.s1 ELSE m0
  IN IF Gt(samples.s2, m1) THEN samples.s2 ELSE m1

\* Math.round of the non-negative fraction num / den
RoundDiv(num, den) == (2 * num + den) \div (2 * den)

\* Util.clamp( s / max * scale - whiteLimit, 0, maxChannel ) * 255 as stored by
\* Color.set (rounded, clamped to 0..255); a comparison with NaN is false, so
\* clamp returns NaN for NaN, and 0 / 0 is NaN
Normalized(s, max) ==
  IF ~IsFin(s) \/ ~IsFin(max) THEN NaN
  ELSE IF max.v = 0
       THEN IF s.v = 0 THEN NaN
            ELSE IF s.v > 0 THEN Fin((MaxChannelTenths * ColorMax) \div 10)
            ELSE Fin(0)
  ELSE IF 10 * ScaleFactor * s.v < WhiteLimitTenths * max.v THEN Fin(0)
  ELSE IF 10 * ScaleFactor * s.v > (WhiteLimitTenths + MaxChannelTenths) * max.v
       THEN Fin((MaxChannelTenths * ColorMax) \div 10)
  ELSE Fin(RoundDiv(ColorMax * (10 * ScaleFactor * s.v - WhiteLimitTenths * max.v),
                    10 * max.v))

\* Util.clamp( Math.sqrt( intensity ), 0, 1 ), as the square of alpha
Alpha(intensity) ==
  IF IsNaN(intensity) THEN NaN
  ELSE IF Lt(intensity, Fin(0)) THEN NaN
  ELSE IF Gt(intensity, Fin(AlphaDenom)) THEN Fin(AlphaDenom)
  ELSE intensity

\* the color written by pixelColor.set for one record
PixelColor(samples) ==
  LET max == MaxSample(samples)
  IN [r |-> Normalized(samples.s0, max),
      g |-> Normalized(samples.s1, max),
      b |-> Normalized(samples.s2, max),
      a |-> Alpha(Mul(samples.s3, max))]

\* ------------------------------------------------------------------ actions
\* paintCanvas, entry: var map = {}
PaintCanvas ==
  /\ pc = "idle"
  /\ frame < MaxFrames
  /\ frame' = frame + 1
  /\ map' = EmptyMap
  /\ i' = 1
  /\ pc' = "rays"
  /\ prevOut' = out
  /\ out' = <<>>
  /\ setPixels' = <<>>
  /\ UNCHANGED <<shapeVars, toolVars>>
  /\ UNCHANGED <<whiteLightRays, hashMapPointArray, walk, steps>>

\* the locals of draw( x0, y0, x1, y1 ) before its loop
DrawLocals(x0, y0, x1, y1) ==
  LET dx == Abs(Sub(x1, x0))
      dy == Abs(Sub(y1, y0))
  IN [x0 |-> x0, y0 |-> y0, x1 |-> x1, y1 |-> y1, dx |-> dx, dy |-> dy,
      sx |-> IF Lt(x0, x1) THEN 1 ELSE -1,
      sy |-> IF Lt(y0, y1) THEN 1 ELSE -1,
      err |-> Sub(dx, dy)]

\* mutant of StartWalk: always from the tip, no swap
StartWalkNoSwap(child) ==
  DrawLocals(child.tip.x, child.tip.y, child.tail.x, child.tail.y)

\* the call of draw chosen by paintCanvas for one ray
StartWalk(child) ==
  LET x1 == child.tip.x
      y1 == child.tip.y
      x2 == child.tail.x
      y2 == child.tail.y
  IN IF isOutOfBounds(x1, y1)
     THEN DrawLocals(x2, y2, x1, y1)
     ELSE DrawLocals(x1, y1, x2, y2)

\* paintCanvas, first loop: the next ray is handed to draw
NextRay ==
  /\ pc = "rays"
  /\ i <= Len(whiteLightRays)
  /\ walk' = StartWalk(whiteLightRays[i])
  /\ steps' = 0
  /\ pc' = "draw"
  /\ UNCHANGED <<shapeVars, toolVars>>
  /\ UNCHANGED <<whiteLightRays, hashMapPointArray, map, i, setPixels, out, prevOut, frame>>

\* mutant of Advance: the y step is never taken
AdvanceNoYStep(w) ==
  LET e2 == Mul(Fin(2), w.err)
      moveX == Gt(e2, Neg(w.dy))
  IN [w EXCEPT !.x0 = IF moveX THEN Add(@, Fin(w.sx)) ELSE @,
               !.err = IF moveX THEN Sub(@, w.dy) ELSE @]

\* the locals of draw after one pass that did not break
Advance(w) ==
  LET e2 == Mul(Fin(2), w.err)
      moveX == Gt(e2, Neg(w.dy))
      err1 == IF moveX THEN Sub(w.err, w.dy) ELSE w.err
      moveY == Lt(e2, w.dx)
  IN [w EXCEPT !.x0 = IF moveX THEN Add(@, Fin(w.sx)) ELSE @,
               !.y0 = IF moveY THEN Add(@, Fin(w.sy)) ELSE @,
               !.err = IF moveY THEN Add(err1, w.dx) ELSE err1]

\* the two breaks of the loop of draw
Breaks(w) ==
  IF StrictEq(w.x0, w.x1) /\ StrictEq(w.y0, w.y1) THEN TRUE
  ELSE isOutOfBounds(w.x0, w.y0)

\* draw, one pass of while ( true )
DrawStep ==
  /\ pc = "draw"
  /\ steps < MaxSteps
  /\ LET child == whiteLightRays[i]
         st == setPixel(<<map, hashMapPointArray>>, walk.x0, walk.y0, i, child)
     IN /\ map' = st[1]
        /\ hashMapPointArray' = st[2]
        /\ setPixels' = Append(setPixels,
             [x |-> walk.x0, y |-> walk.y0, ray |-> i,
              color |-> child.color, intensity |-> child.powerFraction])
  /\ steps' = steps + 1
  /\ IF Breaks(walk)
     THEN /\ pc' = "rays"
          /\ i' = i + 1
          /\ walk' = walk
     ELSE /\ pc' = "draw"
          /\ i' = i
          /\ walk' = Advance(walk)
  /\ UNCHANGED <<shapeVars, toolVars>>
  /\ UNCHANGED <<whiteLightRays, out, prevOut, frame>>

\* paintCanvas, between the loops
RaysDone ==
  /\ pc = "rays"
  /\ i > Len(whiteLightRays)
  /\ pc' = "composite"
  /\ i' = 1
  /\ UNCHANGED <<shapeVars, toolVars>>
  /\ UNCHANGED <<whiteLightRays, hashMapPointArray, map, walk, steps, setPixels,
                 out, prevOut, frame>>

\* paintCanvas, second loop: one record is normalized, written into the color
\* object it refers to (samples[ 6 ], the color of a ray) and filled.
\* samples[ 0..2 ] are overwritten too; a record is read once, the map keeps the sums
CompositeStep ==
  /\ pc = "composite"
  /\ i <= Len(hashMapPointArray)
  /\ LET samples == map[hashMapPointArray[i]]
         pixelColor == PixelColor(samples)
     IN /\ whiteLightRays' = [whiteLightRays EXCEPT ![samples.ray].color = pixelColor]
        /\ out' = Append(out, [x |-> samples.x, y |-> samples.y, color |-> pixelColor])
  /\ i' = i + 1
  /\ UNCHANGED <<shapeVars, toolVars>>
  /\ UNCHANGED <<hashMapPointArray, map, pc, walk, steps, setPixels, prevOut, frame>>

\* mutant of PaintDone: the key list is not emptied
PaintDoneKeepsKeys ==
  /\ pc = "composite"
  /\ i > Len(hashMapPointArray)
  /\ pc' = "idle"
  /\ UNCHANGED <<shapeVars, toolVars>>
  /\ UNCHANGED <<whiteLightRays, hashMapPointArray, map, i, walk, steps, setPixels,
                 out, prevOut, frame>>

\* paintCanvas, exit: this.hashMapPointArray.length = 0
PaintDone ==
  /\ pc = "composite"
  /\ i > Len(hashMapPointArray)
  /\ hashMapPointArray' = <<>>
  /\ pc' = "idle"
  /\ UNCHANGED <<shapeVars, toolVars>>
  /\ UNCHANGED <<whiteLightRays, map, i, walk, steps, setPixels, out, prevOut, frame>>

Next ==
  \/ PaintCanvas
  \/ NextRay
  \/ DrawStep
  \/ RaysDone
  \/ CompositeStep
  \/ PaintDone

\* =========================================================== prism shapes
\* Lengths of the shape model are in half units: the point with the whole
\* coordinates (x, y) is Whole(x, y) = (2x, 2y), so that times( 0.5 ) of the
\* sum of two whole points is exact.  Angles are whole numbers of quarter
\* turns, which rotate() maps exactly (the floating-point rounding of
\* Math.cos and Math.sin is left out).

\* whole coordinates lie in -MaxCoord..MaxCoord, radii in 1..MaxRadius
MaxCoord == 2
MaxRadius == 1

Whole(x, y) == Point(Fin(2 * x), Fin(2 * y))

\* JavaScript values that are not numbers
Str == [k |-> "str", v |-> 0]
Undefined == [k |-> "undef", v |-> 0]
Null == [k |-> "null", v |-> 0]
\* a Vector2 object found where a number is expected
ObjectArg == [k |-> "obj", v |-> 0]

\* the + of JavaScript: string concatenation as soon as one side is a string
\* or an object whose toString is used, NaN for undefined
Plus(a, b) ==
  IF a.k \in {"str", "obj"} \/ b.k \in {"str", "obj"} THEN Str
  ELSE IF a.k = "undef" \/ b.k = "undef" THEN NaN
  ELSE Add(a, b)

\* ----------------------------------------------------------------- Vector2
plus(a, b) == Point(Add(a.x, b.x), Add(a.y, b.y))
minus(a, b) == Point(Sub(a.x, b.x), Sub(a.y, b.y))
plusXY(a, x, y) == Point(Plus(a.x, x), Plus(a.y, y))
negated(a) == Point(Neg(a.x), Neg(a.y))
\* times( 0.5 ), exact on the sum of two whole points
timesHalf(a) == Point(Fin(a.x.v \div 2), Fin(a.y.v \div 2))
\* rotate( angle ), angle in quarter turns
rotate(a, angle) ==
  IF angle % 4 = 0 THEN a
  ELSE IF angle % 4 = 1 THEN Point(Neg(a.y), a.x)
  ELSE IF angle % 4 = 2 THEN Point(Neg(a.x), Neg(a.y))
  ELSE Point(a.y, Neg(a.x))

\* a vector whose components are finite numbers
IsVector(a) == DOMAIN a = {"x", "y"} /\ a.x.k = "fin" /\ a.y.k = "fin"
Dot(a, b) == a.x.v * b.x.v + a.y.v * b.y.v
Cross(a, b) == a.x.v * b.y.v - a.y.v * b.x.v

\* ------------------------------------------------------------ constructors
Circle(center, radius) ==
  [type |-> "Circle", center |-> center, radius |-> radius]

SemiCircle(referencePointIndex, points, radius) ==
  [type |-> "SemiCircle", referencePointIndex |-> referencePointIndex,
   points |-> points, radius |-> radius]

\* the functions each prototype defines
CircleMethods ==
  {"getTranslatedInstance", "getIntersections", "getRotationCenter",
   "getReferencePoint", "containsPoint"}
SemiCircleMethods ==
  {"toShape", "getPoint", "getTranslatedInstance", "getRotatedInstance",
   "toPointArray", "containsPoint", "getReferencePoint", "getRotationCenter",
   "getIntersections", "getBounds"}
Methods(s) == IF s.type = "Circle" THEN CircleMethods ELSE SemiCircleMethods

\* ------------------------------------------------------------------ Circle
\* returns the new instance; plusXY leaves this.center alone
CircleGetTranslatedInstance(s, deltaX, deltaY) ==
  [receiver |-> s,
   value |-> Circle(plusXY(s.center, deltaX, deltaY), s.radius)]

CircleGetRotationCenter(s) == s.center

CircleGetReferencePoint(s) == Null

\* point.distance( this.center ) <= this.radius; false for a NaN distance
CircleContainsPoint(s, point) ==
  /\ IsVector(s.center)
  /\ Dot(minus(point, s.center), minus(point, s.center)) <= s.radius.v * s.radius.v

\* -------------------------------------------------------------- SemiCircle
\* this.points[ index ]: undefined outside the array
getPoint(s, index) ==
  IF index \in 0..(Len(s.points) - 1) THEN s.points[index + 1] ELSE Undefined

\* the arc of toShape: center, direction of startAngle, radius
toShape(s) ==
  LET center == timesHalf(plus(s.points[1], s.points[2]))
  IN [center |-> center, start |-> minus(center, s.points[2]), radius |-> s.radius]

\* mutant of SemiCircleGetTranslatedInstance: "just use the 0th point"
TranslatedInstanceIndexZero(s, delta) ==
  [receiver |-> s,
   value |-> SemiCircle(0, [k \in 1..Len(s.points) |-> plus(s.points[k], delta)],
                        s.radius)]

\* plus returns a new vector: the points of the receiver stay
SemiCircleGetTranslatedInstance(s, delta) ==
  [receiver |-> s,
   value |-> SemiCircle(s.referencePointIndex,
                        [k \in 1..Len(s.points) |-> plus(s.points[k], delta)],
                        s.radius)]

\* mutant of SemiCircleGetRotatedInstance: the pivot is not added back
RotatedInstanceAboutOrigin(s, angle, rotationPoint) ==
  [receiver |-> s,
   value |-> SemiCircle(s.referencePointIndex,
                        [k \in 1..Len(s.points) |->
                           rotate(minus(s.points[k], rotationPoint), angle)],
                        s.radius)]

\* minus returns a new vector, rotate turns that vector in place, plus
\* returns a new vector again: the points of the receiver stay
SemiCircleGetRotatedInstance(s, angle, rotationPoint) ==
  [receiver |-> s,
   value |-> SemiCircle(s.referencePointIndex,
                        [k \in 1..Len(s.points) |->
                           plus(rotate(minus(s.points[k], rotationPoint), angle),
                                rotationPoint)],
                        s.radius)]

SemiCircleGetReferencePoint(s) == getPoint(s, s.referencePointIndex)

SemiCircleGetRotationCenter(s) == timesHalf(plus(s.points[1], s.points[2]))

\* this.toShape().containsPoint( point ): the closed half disc on the side
\* the arc sweeps from its start direction
SemiCircleContainsPoint(s, point) ==
  LET outline == toShape(s)
      v == minus(point, outline.center)
  IN /\ Dot(v, v) <= outline.radius.v * outline.radius.v
     /\ Cross(outline.start, v) >= 0

\* ------------------------------------------------- intersection geometry
\* Intersection points need square roots.  A coordinate is kept exactly as
\* (a + b * sqrt(d)) / den with integers a, b, d >= 0 and den > 0, and every
\* test the code makes on it is a test of the sign of such a number.

\* the sign of a + b * sqrt(d)
SurdSign(a, b, d) ==
  IF b = 0 \/ d = 0 THEN SignInt(a)
  ELSE IF a = 0 THEN SignInt(b)
  ELSE IF SignInt(a) = SignInt(b) THEN SignInt(a)
  ELSE SignInt(a) * SignInt(a * a - b * b * d)

\* the point ((ax + bx * sqrt(d)) / den, (ay + by * sqrt(d)) / den)
SurdPoint(ax, ay, bx, by, d, den) ==
  [ax |-> ax, ay |-> ay, bx |-> bx, by |-> by, d |-> d, den |-> den]

\* the vector from the point q to the surd point h
SurdMinus(h, q) ==
  [h EXCEPT !.ax = @ - q.x.v * h.den, !.ay = @ - q.y.v * h.den]

SurdNegated(h) ==
  [h EXCEPT !.ax = -@, !.ay = -@, !.bx = -@, !.by = -@]

\* a vector with integer components as a surd vector
AsSurd(v) == SurdPoint(v.x.v, v.y.v, 0, 0, 0, 1)

\* the sign of the dot product of a surd vector and a vector
SurdDotSign(h, v) ==
  SurdSign(h.ax * v.x.v + h.ay * v.y.v, h.bx * v.x.v + h.by * v.y.v, h.d)

\* new Ray2( position, direction )
Ray2(position, direction) == [position |-> position, direction |-> direction]

\* Line.intersection( ray ) of the segment start..end: no hit for a segment
\* of length zero, for a parallel ray, outside 0 <= t < 1 along the segment
\* and for s not greater than zero along the ray; else the one hit
LineIntersection(start, end, ray) ==
  LET diff == minus(end, start)
      denom == ray.direction.y.v * diff.x.v - ray.direction.x.v * diff.y.v
      toStart == minus(start, ray.position)
      t == ray.direction.x.v * toStart.y.v - ray.direction.y.v * toStart.x.v
      s == diff.x.v * toStart.y.v - diff.y.v * toStart.x.v
      sign == SignInt(denom)
  IN IF Dot(diff, diff) = 0 \/ denom = 0 THEN <<>>
     ELSE IF t * sign < 0 \/ t * sign >= denom * sign THEN <<>>
     ELSE IF s * sign <= 0 THEN <<>>
     ELSE <<[point |-> SurdPoint(sign * (start.x.v * denom + diff.x.v * t),
                                 sign * (start.y.v * denom + diff.y.v * t),
                                 0, 0, 0, sign * denom)]>>

\* the point of the ray at the root (-dw + root * sqrt(disc)) / dd of the
\* circle equation, root being -1 or 1
ArcPoint(ray, dd, dw, disc, root) ==
  [point |-> SurdPoint(ray.position.x.v * dd - ray.direction.x.v * dw,
                       ray.position.y.v * dd - ray.direction.y.v * dw,
                       root * ray.direction.x.v, root * ray.direction.y.v,
                       disc, dd)]

\* Arc.containsAngle for the half turn that starts in direction start: the
\* hit is on the side the arc sweeps, ends included
ContainsAngle(center, start, hit) ==
  \A v \in {SurdMinus(hit.point, center)} :
    SurdSign(start.x.v * v.ay - start.y.v * v.ax,
             start.x.v * v.by - start.y.v * v.bx, v.d) >= 0

\* Shape.intersection( ray ) of new Shape().ellipticalArc( center.x,
\* center.y, radius, radius, 0, startAngle, startAngle + Math.PI, false ):
\* the ray is taken to the unit circle with its direction normalized, which
\* throws for a direction of length zero; the hits come by distance
ArcIntersection(center, start, radius, ray) ==
  LET w == minus(ray.position, center)
      dd == Dot(ray.direction, ray.direction)
      dw == Dot(ray.direction, w)
      disc == dw * dw - dd * (Dot(w, w) - radius.v * radius.v)
      pointA == ArcPoint(ray, dd, dw, disc, -1)
      pointB == ArcPoint(ray, dd, dw, disc, 1)
      hitA == IF ContainsAngle(center, start, pointA) THEN <<pointA>> ELSE <<>>
      hitB == IF ContainsAngle(center, start, pointB) THEN <<pointB>> ELSE <<>>
  IN IF dd = 0 THEN [error |-> "Error", hits |-> <<>>]
     ELSE IF disc < 0 THEN [error |-> "none", hits |-> <<>>]
     ELSE IF SurdSign(-dw, 1, disc) < 0 THEN [error |-> "none", hits |-> <<>>]
     ELSE IF SurdSign(-dw, -1, disc) < 0 THEN [error |-> "none", hits |-> hitB]
     ELSE [error |-> "none", hits |-> hitA \o hitB]

\* new Intersection( unitNormal, point ); the unit normal is kept as a
\* vector of its direction, normalized() scaling it to length one
Intersection(unitNormal, point) == [unitNormal |-> unitNormal, point |-> point]

\* mutant of ChordNormal: the perpendicular along the ray
ChordNormalAlongRay(start, end, ray) ==
  LET normal1 == rotate(minus(end, start), 1)
      normal2 == rotate(minus(end, start), -1)
  IN IF Dot(ray.directionUnitVector, normal1) > 0 THEN normal1 ELSE normal2

\* the normal of a chord hit: of the two perpendiculars of the segment the
\* one with a negative dot product with the ray direction, else the other
ChordNormal(start, end, ray) ==
  LET normal1 == rotate(minus(end, start), 1)
      normal2 == rotate(minus(end, start), -1)
  IN IF Dot(ray.directionUnitVector, normal1) < 0 THEN normal1 ELSE normal2

\* the ray both queries of SemiCircle.getIntersections are made with
QueryRay(ray) == Ray2(ray.tail, plus(ray.tail, ray.directionUnitVector))

\* the ray with the tail and the direction of the incoming ray
TrueRay(ray) == Ray2(ray.tail, ray.directionUnitVector)

\* SemiCircle.getIntersections, the part for the chord
ChordIntersections(s, ray) ==
  LET intersection == LineIntersection(s.points[1], s.points[2], QueryRay(ray))
  IN IF Len(intersection) # 0
     THEN <<Intersection(AsSurd(ChordNormal(s.points[1], s.points[2], ray)),
                         intersection[1].point)>>
     ELSE <<>>

\* SemiCircle.getIntersections, the part for the arc: the first hit, when
\* it is in front of the tail, with the radial normal turned against the ray
ArcIntersections(s, ray, intersection) ==
  IF Len(intersection) # 0
  THEN LET point == intersection[1].point
           center == toShape(s).center
           normalVector == SurdMinus(point, center)
       IN IF SurdDotSign(SurdMinus(point, ray.tail), ray.directionUnitVector) > 0
          THEN <<Intersection(
                   IF SurdDotSign(normalVector, ray.directionUnitVector) > 0
                   THEN SurdNegated(normalVector) ELSE normalVector,
                   point)>>
          ELSE <<>>
  ELSE <<>>

\* SemiCircle.getIntersections: the chord first, then the arc
SemiCircleGetIntersections(s, ray) ==
  LET outline == toShape(s)
      arc == ArcIntersection(outline.center, outline.start, outline.radius,
                             QueryRay(ray))
  IN IF arc.error # "none" THEN [error |-> arc.error, value |-> <<>>]
     ELSE [error |-> "none",
           value |-> ChordIntersections(s, ray) \o ArcIntersections(s, ray, arc.hits)]

\* Circle.getIntersections hands the ray to PrismIntersection: a direction
\* of length zero is rejected, a tangent or missing ray gives nothing, else
\* the hits in front of the tail with the radial normal turned against the ray
CircleGetIntersections(s, ray) ==
  LET query == TrueRay(ray)
      w == minus(ray.tail, s.center)
      dd == Dot(query.direction, query.direction)
      dw == Dot(query.direction, w)
      disc == dw * dw - dd * (Dot(w, w) - s.radius.v * s.radius.v)
      Hit(root) ==
        IF SurdSign(-dw, root, disc) > 0
        THEN LET point == ArcPoint(query, dd, dw, disc, root).point
                 normalVector == SurdMinus(point, s.center)
             IN <<Intersection(
                    IF SurdDotSign(normalVector, ray.directionUnitVector) > 0
                    THEN SurdNegated(normalVector) ELSE normalVector,
                    point)>>
        ELSE <<>>
  IN IF dd = 0 THEN [error |-> "InvalidArgument", value |-> <<>>]
     ELSE IF ~IsVector(s.center) \/ disc <= 0 THEN [error |-> "none", value |-> <<>>]
     ELSE [error |-> "none", value |-> Hit(-1) \o Hit(1)]

\* ------------------------------------------------------ shape input domains
Coords == -MaxCoord..MaxCoord
WholePoints == {Whole(x, y) : x \in Coords, y \in Coords}

\* centers that keep a shape of whole radius r inside the coordinates
Centers(r) == {Whole(x, y) : x \in (r - MaxCoord)..(MaxCoord - r),
                             y \in (r - MaxCoord)..(MaxCoord - r)}

\* the four axis directions, of length r whole units
AxisVectors(r) == {Whole(r, 0), Whole(-r, 0), Whole(0, r), Whole(0, -r)}

Circles ==
  UNION {{Circle(c, Fin(2 * r)) : c \in Centers(r)} : r \in 1..MaxRadius}

\* half discs on a diameter: the two points are the ends of a diameter
\* along an axis, anywhere inside the coordinates
SemiCirclesWith(indices) ==
  UNION {{SemiCircle(n, <<minus(c, h), plus(c, h)>>, Fin(2 * r)) :
            n \in indices,
            c \in WholePoints,
            h \in AxisVectors(r)} :
         r \in 1..MaxRadius}

\* every point of a shape is inside the coordinates of the model
InBox(s) ==
  s.type = "SemiCircle" =>
    \A k \in 1..Len(s.points) :
      /\ AbsInt(s.points[k].x.v) <= 2 * MaxCoord
      /\ AbsInt(s.points[k].y.v) <= 2 * MaxCoord

Shapes == Circles \cup {s \in SemiCirclesWith({0, 1}) : InBox(s)}
BadIndexShapes == {s \in SemiCirclesWith({-1, 2}) : InBox(s)}

Deltas == AxisVectors(1)
Angles == {-1, 1, 2}
Pivots == {Whole(0, 0), Whole(1, 0)}

\* a ray of the ray tracer: tail and direction unit vector
IncidentRay(tail, directionUnitVector) ==
  [tail |-> tail, directionUnitVector |-> directionUnitVector]
Rays == {IncidentRay(t, d) : t \in WholePoints, d \in AxisVectors(1)}
ZeroRays == {IncidentRay(t, Whole(0, 0)) : t \in WholePoints}

\* ------------------------------------------------------------ shape calls
\* a call: the function, its arguments, and in on the call that constructed
\* the receiver
NoArgs ==
  [name |-> "new", on |-> "new", delta |-> Whole(0, 0), angle |-> 0, point |-> Whole(0, 0),
   ray |-> IncidentRay(Whole(0, 0), Whole(0, 0))]

Returned(value) == [error |-> "none", value |-> value]
Threw(error) == [error |-> error, value |-> Undefined]

\* the calls that construct an instance.  A call that only answers leaves
\* the instance as it is, so calls are taken on an instance as it was
\* constructed, not again after an answer; and a copy is an instance the
\* constructor makes from points of the same coordinates, so the calls with
\* a point or a ray are taken on the instances of the initial states
Constructs == {"new", "getTranslatedInstance", "getRotatedInstance"}

\* a call that returns a new instance, which is used from then on
Replaces(c, ret, point) ==
  /\ call.name \in Constructs
  /\ call' = [c EXCEPT !.on = call.name]
  /\ result' = Returned(ret.value)
  /\ before' = shape
  /\ receiver' = ret.receiver
  /\ shape' = ret.value
  /\ tracked' = point
  /\ UNCHANGED incident
  /\ UNCHANGED <<rendererVars, toolVars>>

\* a call that answers or throws and leaves the instance in use
Answers(c, res) ==
  /\ call.name \in Constructs
  /\ call' = [c EXCEPT !.on = call.name]
  /\ result' = res
  /\ before' = shape
  /\ receiver' = shape
  /\ UNCHANGED <<shape, tracked, incident>>
  /\ UNCHANGED <<rendererVars, toolVars>>

\* s.getTranslatedInstance( delta ) with one vector: Circle binds the vector
\* to deltaX and leaves deltaY undefined
getTranslatedInstance(s, delta) ==
  IF s.type = "Circle"
  THEN CircleGetTranslatedInstance(s, ObjectArg, Undefined)
  ELSE SemiCircleGetTranslatedInstance(s, delta)

\* shape.getTranslatedInstance( delta )
GetTranslatedInstance ==
  \E delta \in Deltas :
    LET ret == getTranslatedInstance(shape, delta)
    IN /\ InBox(ret.value)
       /\ Replaces([NoArgs EXCEPT !.name = "getTranslatedInstance", !.delta = delta],
                   ret,
                   IF IsVector(tracked) THEN plus(tracked, delta) ELSE tracked)

\* shape.getRotatedInstance( angle, rotationPoint ): Circle has no such function
GetRotatedInstance ==
  \E angle \in Angles :
    \E rotationPoint \in Pivots :
      \A c \in {[NoArgs EXCEPT !.name = "getRotatedInstance", !.angle = angle,
                               !.point = rotationPoint]} :
        IF "getRotatedInstance" \in Methods(shape)
        THEN LET ret == SemiCircleGetRotatedInstance(shape, angle, rotationPoint)
             IN /\ InBox(ret.value)
                /\ Replaces(c, ret,
                     IF IsVector(tracked)
                     THEN plus(rotate(minus(tracked, rotationPoint), angle),
                               rotationPoint)
                     ELSE tracked)
        ELSE Answers(c, Threw("TypeError"))

\* a call of a function the prototype of the instance may not define
Dispatch(c, res) ==
  Answers(c, IF c.name \in Methods(shape) THEN res ELSE Threw("TypeError"))

\* shape.getRotationCenter()
GetRotationCenter ==
  \A c \in {[NoArgs EXCEPT !.name = "getRotationCenter"]} :
    Dispatch(c, Returned(IF shape.type = "Circle"
                         THEN CircleGetRotationCenter(shape)
                         ELSE SemiCircleGetRotationCenter(shape)))

\* shape.getReferencePoint()
GetReferencePoint ==
  \A c \in {[NoArgs EXCEPT !.name = "getReferencePoint"]} :
    Dispatch(c, Returned(IF shape.type = "Circle"
                         THEN CircleGetReferencePoint(shape)
                         ELSE SemiCircleGetReferencePoint(shape)))

\* shape.containsPoint( point )
ContainsPoint ==
  \E point \in WholePoints :
    /\ call.name = "new"
    /\ Dispatch([NoArgs EXCEPT !.name = "containsPoint", !.point = point],
             Returned([contains |->
                         IF shape.type = "Circle"
                            THEN CircleContainsPoint(shape, point)
                            ELSE SemiCircleContainsPoint(shape, point)]))

\* shape.toShape(), as PrismNode calls it on every prism: Circle keeps its
\* outline in the field shape and has no function toShape
ToShape ==
  \A c \in {[NoArgs EXCEPT !.name = "toShape"]} :
    Dispatch(c, Returned(toShape(shape)))

\* shape.getIntersections( ray )
GetIntersections ==
  \E ray \in incident :
    /\ call.name = "new"
    /\ Dispatch([NoArgs EXCEPT !.name = "getIntersections", !.ray = ray],
                IF shape.type = "Circle" THEN CircleGetIntersections(shape, ray)
                ELSE SemiCircleGetIntersections(shape, ray))

ShapeNext ==
  \/ GetTranslatedInstance
  \/ GetRotatedInstance
  \/ GetRotationCenter
  \/ GetReferencePoint
  \/ ContainsPoint
  \/ ToShape
  \/ GetIntersections

\* a shape has been constructed and nothing has been asked yet
ShapeInit(shapes, incidentRays) ==
  /\ shape \in shapes
  /\ before = shape
  /\ receiver = shape
  /\ call = NoArgs
  /\ result = Returned(shape)
  /\ tracked = (IF shape.type = "Circle" THEN Null
                ELSE IF shape.referencePointIndex \in {0, 1}
                THEN shape.points[shape.referencePointIndex + 1]
                ELSE Undefined)
  /\ incident = incidentRays

\* ======================================================== intensity meter
\* js/common/model/IntensityMeter.js and js/common/model/Reading.js.
\* A reading value is a whole number of hundredths; positions are whole.

\* bounds
MaxReadings == 3
MaxValue == 2
MaxShift == 1

\* new Reading( value )
Reading(value) == [hit |-> TRUE, value |-> value]

\* Reading.MISS
MISS == [hit |-> FALSE, value |-> 0]

\* the methods a reading answers to: those of the Reading prototype for an
\* instance, those of the object literal for Reading.MISS
ReadingMethods(r) ==
  IF r.hit THEN {"getString", "format", "isHit"} ELSE {"getString", "isHit"}

\* isHit: true for an instance, false for Reading.MISS
isHit(r) == r.hit

\* the sum of hit.getValue() over the hits, in order; a call of a method the
\* reading does not have throws a TypeError
RECURSIVE Total(_, _)
Total(hits, total) ==
  IF hits = <<>> THEN [error |-> "none", value |-> total]
  ELSE IF "getValue" \notin ReadingMethods(Head(hits))
       THEN [error |-> "TypeError", value |-> total]
       ELSE Total(Tail(hits), total + Head(hits).value)

\* new IntensityMeter( sensorX, sensorY, bodyX, bodyY )
IntensityMeter(sensorX, sensorY, bodyX, bodyY) ==
  [reading |-> MISS,
   sensorPosition |-> [x |-> sensorX, y |-> sensorY],
   bodyPosition |-> [x |-> bodyX, y |-> bodyY],
   rayReadings |-> <<>>]

\* mutant of clearRayReadings: the accumulated readings are kept
ClearKeepsReadings(m) == [m EXCEPT !.reading = MISS]

\* clearRayReadings
clearRayReadings(m) == [m EXCEPT !.rayReadings = <<>>, !.reading = MISS]

\* updateReading: the meter after the call and the error thrown, if any
updateReading(m) ==
  LET hits == SelectSeq(m.rayReadings, isHit)
      sum == Total(hits, 0)
  IN IF Len(hits) = 0
     THEN [error |-> "none", meter |-> [m EXCEPT !.reading = MISS]]
     ELSE IF sum.error # "none"
     THEN [error |-> sum.error, meter |-> m]
     ELSE [error |-> "none", meter |-> [m EXCEPT !.reading = Reading(sum.value)]]

\* addRayReading
addRayReading(m, r) ==
  updateReading([m EXCEPT !.rayReadings = Append(@, r)])

\* the readings a ray can give
Readings == {MISS} \cup {Reading(v) : v \in 0..MaxValue}

\* the steps the sensor or the body is dragged by
MeterDeltas == {[x |-> 1, y |-> 0], [x |-> 0, y |-> 1]}

MeterCalled(name, m) ==
  /\ meterBefore' = meter
  /\ meter' = m
  /\ meterCall' = [name |-> name, error |-> "none"]
  /\ UNCHANGED <<rendererVars, shapeVars, seriesVars, angleVars, bumpVars, layerVars, sensorVars>>

AddRayReading ==
  \E r \in Readings :
    /\ Len(added) < MaxReadings
    /\ \A after \in {addRayReading(meter, r)} :
         /\ meter' = after.meter
         /\ meterCall' = [name |-> "addRayReading", error |-> after.error]
    /\ meterBefore' = meter
    /\ added' = Append(added, r)
    /\ UNCHANGED <<rendererVars, shapeVars, seriesVars, angleVars, bumpVars, layerVars, sensorVars>>

ClearRayReadings ==
  /\ added # <<>> \/ meterCall.name # "clearRayReadings"
  /\ MeterCalled("clearRayReadings", clearRayReadings(meter))
  /\ added' = <<>>

\* translateSensor( delta )
TranslateSensor ==
  \E delta \in MeterDeltas :
    /\ meter.sensorPosition.x + delta.x <= MaxShift
    /\ meter.sensorPosition.y + delta.y <= MaxShift
    /\ MeterCalled("translateSensor",
         [meter EXCEPT !.sensorPosition = [x |-> @.x + delta.x, y |-> @.y + delta.y]])
    /\ UNCHANGED added

\* translateBody( delta )
TranslateBody ==
  \E delta \in MeterDeltas :
    /\ meter.bodyPosition.x + delta.x <= MaxShift
    /\ meter.bodyPosition.y + delta.y <= MaxShift
    /\ MeterCalled("translateBody",
         [meter EXCEPT !.bodyPosition = [x |-> @.x + delta.x, y |-> @.y + delta.y]])
    /\ UNCHANGED added

MeterNext ==
  \/ AddRayReading
  \/ ClearRayReadings
  \/ TranslateSensor
  \/ TranslateBody

\* the meter after construction
MeterInit ==
  /\ meter = IntensityMeter(0, 0, 0, 0)
  /\ meterBefore = meter
  /\ meterCall = [name |-> "new", error |-> "none"]
  /\ added = <<>>

\* ================================================================ series
\* Series of the wave sensor chart (unnamed/part_002).  A sample is a
\* record with its time and its value.

\* bounds
MaxSamples == 3
MaxTime == 2

\* the index the loop of keepLastSamples stops at, counted from zero: the
\* first index that is past the end or whose sample has time >= minTime
RECURSIVE StartIndex(_, _, _)
StartIndex(samples, minTime, startIndex) ==
  IF startIndex < Len(samples) /\ samples[startIndex + 1].time < minTime
  THEN StartIndex(samples, minTime, startIndex + 1)
  ELSE startIndex

\* mutant of keepLastSamples: every sample before minTime is discarded
KeepSamplesFrom(samples, minTime) ==
  SelectSeq(samples, LAMBDA sample : sample.time >= minTime)

\* keepLastSamples( minTime ): the value of seriesProperty after the call
keepLastSamples(samples, minTime) ==
  IF Len(samples) # 0
  THEN SubSeq(samples, StartIndex(samples, minTime, 0) + 1, Len(samples))
  ELSE samples

\* the data points a series can hold
Samples == [time : 0..MaxTime, value : {0, 1}]
SampleSeqs == UNION {[1..n -> Samples] : n \in 0..MaxSamples}

KeepLastSamples ==
  \E minTime \in 0..(MaxTime + 1) :
    /\ seriesBefore' = series
    /\ series' = keepLastSamples(series, minTime)
    /\ seriesCall' = [name |-> "keepLastSamples", minTime |-> minTime]
    /\ UNCHANGED <<rendererVars, shapeVars, meterVars, angleVars, bumpVars, layerVars, sensorVars>>

SeriesNext ==
  \/ KeepLastSamples

SeriesInit(seqs) ==
  /\ series \in seqs
  /\ seriesBefore = series
  /\ seriesCall = [name |-> "new", minTime |-> 0]

\* ============================================================= angle node
\* js/intro/view/AngleNode.js.  Angles are whole degrees (Math.PI is 180),
\* the directions of the readouts are kept doubled (unit: half a degree),
\* and a power fraction is a whole number of 1E-7.

\* bounds
MaxRays == 3

\* program constants
CIRCLE_RADIUS == 50
LINE_HEIGHT == 13
MinPower == 10
AngleThresholdToBumpToSide == 20
BumpToSide == 25

\* a ray of the model, as far as the node reads it
LightRay(angle, powerFraction) == [angle |-> angle, powerFraction |-> powerFraction]

\* the powerless ray used when there is total internal reflection
MOCK_ZERO_RAY == LightRay(0, 0)

\* getShape: an arc, or null for an angle below 1E-6
getShape(angle, startAngle, endAngle, anticlockwise) ==
  IF angle >= 1
  THEN [radius |-> CIRCLE_RADIUS, startAngle |-> startAngle, endAngle |-> endAngle,
        anticlockwise |-> anticlockwise]
  ELSE [radius |-> 0, startAngle |-> 0, endAngle |-> 0, anticlockwise |-> FALSE]

\* the center of a readout: its direction from the origin (doubled), its
\* distance, and how far it is bumped to the side
ReadoutCenter(direction2, plusX) ==
  [direction2 |-> direction2, distance |-> CIRCLE_RADIUS + LINE_HEIGHT, plusX |-> plusX]

\* the node after construction: the link of showNormalProperty has run once,
\* everything else is as scenery creates it (visible, no shape, no text)
AngleNode(normal) ==
  [dirty |-> TRUE,
   upperMarkVisible |-> ~normal,
   lowerMarkVisible |-> TRUE,
   upperArcShape |-> getShape(0, 0, 0, FALSE),
   lowerArcShape |-> getShape(0, 0, 0, FALSE),
   lowerArcVisible |-> TRUE,
   incomingText |-> -1,
   reflectedText |-> -1,
   refractedText |-> -1,
   refractedVisible |-> TRUE,
   incomingCenter |-> ReadoutCenter(0, 0),
   reflectedCenter |-> ReadoutCenter(0, 0),
   refractedCenter |-> ReadoutCenter(0, 0)]

\* what the step listener assigns when it redraws
Redrawn(node, list, normal) ==
  LET incomingRay == list[1]
      reflectedRay == list[2]
      refractedRay == IF Len(list) > 2 THEN list[3] ELSE MOCK_ZERO_RAY
      incomingAngleFromNormal == incomingRay.angle + 90
      refractedAngleFromNormal == refractedRay.angle + 90
      bumpTop == incomingAngleFromNormal >= AngleThresholdToBumpToSide
      bumpBottomReadout == refractedAngleFromNormal >= AngleThresholdToBumpToSide
      showLowerAngle == refractedRay.powerFraction >= MinPower
  IN [node EXCEPT
        !.upperArcShape = getShape(incomingAngleFromNormal, 180 - incomingRay.angle,
                                   -reflectedRay.angle, FALSE),
        !.lowerArcShape = getShape(refractedAngleFromNormal, 90,
                                   90 - refractedAngleFromNormal, TRUE),
        !.incomingText = incomingAngleFromNormal,
        !.incomingCenter = ReadoutCenter(-180 - incomingAngleFromNormal,
                                         IF bumpTop THEN 0 ELSE -BumpToSide),
        !.reflectedText = incomingAngleFromNormal,
        !.reflectedCenter = ReadoutCenter(-180 + incomingAngleFromNormal,
                                          IF bumpTop THEN 0 ELSE BumpToSide),
        !.refractedVisible = showLowerAngle,
        !.lowerArcVisible = showLowerAngle,
        !.lowerMarkVisible = ~normal /\ showLowerAngle,
        !.refractedText = refractedAngleFromNormal,
        !.refractedCenter = ReadoutCenter(180 - refractedAngleFromNormal,
                                          IF bumpBottomReadout THEN 0 ELSE BumpToSide),
        !.dirty = FALSE]

\* mutant of StepListener: the refracted ray is never read
StepWithoutRefracted(node, list, normal) ==
  IF Len(list) >= 2 /\ node.dirty
  THEN Redrawn(node, SubSeq(list, 1, 2), normal)
  ELSE node

\* mutant of StepListener: the lower mark ignores the normal
StepMarkIgnoresNormal(node, list, normal) ==
  IF Len(list) >= 2 /\ node.dirty
  THEN [Redrawn(node, list, normal) EXCEPT !.lowerMarkVisible = @ \/ normal]
  ELSE node

\* the step listener
StepListener(node, list, normal) ==
  IF Len(list) >= 2 /\ node.dirty THEN Redrawn(node, list, normal) ELSE node

\* the rays of the model: the angle is getAngle() in degrees
LightRays == {LightRay(a, p) : a \in {-90, -30}, p \in {MinPower - 1, MinPower}}

AngleEvent(name, list, normal, node) ==
  /\ angleBefore' = angleNode
  /\ rays' = list
  /\ showNormal' = normal
  /\ angleNode' = node
  /\ angleEvent' = name
  /\ UNCHANGED <<rendererVars, shapeVars, meterVars, seriesVars, bumpVars, layerVars, sensorVars>>

\* rays.add( ray ): the item added listener is markDirty
RayAdded ==
  \E ray \in LightRays :
    /\ Len(rays) < MaxRays
    /\ AngleEvent("added", Append(rays, ray), showNormal,
                  [angleNode EXCEPT !.dirty = TRUE])

\* rays.remove( ray ) or rays.clear(): the item removed listener is markDirty
RayRemoved ==
  \E k \in 1..Len(rays) :
    AngleEvent("removed", SubSeq(rays, 1, k - 1) \o SubSeq(rays, k + 1, Len(rays)),
               showNormal, [angleNode EXCEPT !.dirty = TRUE])

\* showNormalProperty changes: the linked function runs
ShowNormalChanged ==
  \A normal \in {~showNormal} :
    AngleEvent("showNormal", rays, normal,
               [angleNode EXCEPT !.upperMarkVisible = ~normal, !.dirty = TRUE])

\* a frame: the step listener runs
Step ==
  \A node \in {StepListener(angleNode, rays, showNormal)} :
    AngleEvent("step", rays, showNormal, node)

AngleNext ==
  \/ RayAdded
  \/ RayRemoved
  \/ ShowNormalChanged
  \/ Step

AngleInit(normals) ==
  /\ rays = <<>>
  /\ showNormal \in normals
  /\ angleNode = AngleNode(showNormal)
  /\ angleBefore = angleNode
  /\ angleEvent = "new"

\* ================================================================ bumpLeft
\* js/intro/view/IntroView.js: a tool dropped behind a medium control panel
\* is moved to the left.  Positions and bounds are in view units; the
\* position of a tool is the center of its node.

\* bounds
MaxDrop == 11

\* program constants
BumpDelta == 20

\* new Bounds2( minX, minY, maxX, maxY )
Bounds2(minX, minY, maxX, maxY) ==
  [minX |-> minX, minY |-> minY, maxX |-> maxX, maxY |-> maxY]

\* Bounds2.intersectsBounds: bounds that only touch intersect
intersectsBounds(a, b) ==
  LET min(p, q) == IF p < q THEN p ELSE q
      max(p, q) == IF p > q THEN p ELSE q
  IN /\ min(a.maxX, b.maxX) - max(a.minX, b.minX) >= 0
     /\ min(a.maxY, b.maxY) - max(a.minY, b.minY) >= 0

\* the global bounds of the two medium control panels: at the right of the
\* stage, above and below the interface between the media
TopMediumControlPanel == Bounds2(60, 5, 100, 35)
BottomMediumControlPanel == Bounds2(60, 55, 100, 85)

\* half the width and height of the probe and of the body of the meter
HalfSize(node) == IF node = "probeNode" THEN 5 ELSE 15

\* node.getGlobalBounds() with the node at the position
GlobalBounds(node, position) ==
  Bounds2(position.x - HalfSize(node), position.y - HalfSize(node),
          position.x + HalfSize(node), position.y + HalfSize(node))

\* mutant of Behind: only the top panel is looked at
BehindTop(node, position) ==
  intersectsBounds(GlobalBounds(node, position), TopMediumControlPanel)

\* the condition of the while loop of bumpLeft
Behind(node, position) ==
  \/ intersectsBounds(GlobalBounds(node, position), TopMediumControlPanel)
  \/ intersectsBounds(GlobalBounds(node, position), BottomMediumControlPanel)

\* where a tool can be dropped
DropPoints == {[x |-> 10 * cx, y |-> 10 * cy] : cx \in 0..MaxDrop, cy \in 0..(MaxDrop - 2)}

\* endDrag of the probe or of the body: bumpLeft is called
MeterEndDrag ==
  \E node \in {"probeNode", "bodyNode"}, position \in DropPoints :
    /\ bump.pc # "bumpLeft"
    /\ bump' = [pc |-> "bumpLeft", node |-> node, start |-> position,
                position |-> position, steps |-> 0]
    /\ UNCHANGED <<rendererVars, shapeVars, meterVars, seriesVars, angleVars, layerVars, sensorVars>>

\* bumpLeft, one test of the loop condition: a pass of the body, or the return
BumpLeft ==
  /\ bump.pc = "bumpLeft"
  /\ bump' = (IF Behind(bump.node, bump.position)
              THEN [bump EXCEPT !.position.x = @ - BumpDelta, !.steps = @ + 1]
              ELSE [bump EXCEPT !.pc = "returned"])
  /\ UNCHANGED <<rendererVars, shapeVars, meterVars, seriesVars, angleVars, layerVars, sensorVars>>

BumpNext ==
  \/ MeterEndDrag
  \/ BumpLeft

BumpInit ==
  bump = [pc |-> "idle", node |-> "probeNode", start |-> [x |-> 0, y |-> 0],
          position |-> [x |-> 0, y |-> 0], steps |-> 0]

\* ============================================================= prism layer
\* js/prisms/view/PrismBreakView.js, the listeners of prismBreakModel.prisms.
\* A prism is a number; a PrismNode is named by the prism it was made for.

\* bounds
MaxPrisms == 4

\* the sequence without its element at the index (counted from zero)
removeChild(children, index) ==
  SubSeq(children, 1, index) \o SubSeq(children, index + 2, Len(children))

\* the loop of the item removed listener: the child at index i of the list
\* as it is now is removed, then i goes up by one
RECURSIVE RemoveLoop(_, _)
RemoveLoop(children, index) ==
  IF index < Len(children)
  THEN RemoveLoop(removeChild(children, index), index + 1)
  ELSE children

\* prisms.add( item ): the item added listener adds a new PrismNode
PrismAdded ==
  \E item \in 1..MaxPrisms :
    /\ \A k \in 1..Len(prisms) : prisms[k] # item
    /\ prisms' = Append(prisms, item)
    /\ prismLayer' = Append(prismLayer, item)
    /\ layerEvent' = [name |-> "added", item |-> item]
    /\ UNCHANGED <<rendererVars, shapeVars, meterVars, seriesVars, angleVars, bumpVars, sensorVars>>

\* prisms.remove( item ): the item removed listener runs its loop
PrismRemoved ==
  \E k \in 1..Len(prisms) :
    /\ prisms' = removeChild(prisms, k - 1)
    /\ prismLayer' = RemoveLoop(prismLayer, 0)
    /\ layerEvent' = [name |-> "removed", item |-> prisms[k]]
    /\ UNCHANGED <<rendererVars, shapeVars, meterVars, seriesVars, angleVars, bumpVars, sensorVars>>

\* resetAll of the view, once the model has no prisms: removeAllChildren
ResetAll ==
  /\ prisms = <<>>
  /\ layerEvent.name # "resetAll"
  /\ prismLayer' = <<>>
  /\ layerEvent' = [name |-> "resetAll", item |-> 0]
  /\ UNCHANGED prisms
  /\ UNCHANGED <<rendererVars, shapeVars, meterVars, seriesVars, angleVars, bumpVars, sensorVars>>

LayerNext ==
  \/ PrismAdded
  \/ PrismRemoved
  \/ ResetAll

LayerInit ==
  /\ prisms = <<>>
  /\ prismLayer = <<>>
  /\ layerEvent = [name |-> "new", item |-> 0]

\* ======================================================== velocity sensor
\* js/more-tools/view/VelocitySensorNode.js: the node moves between the
\* layer of the sensor panel (beforeLightLayer2) and the layer of the play
\* area (afterLightLayer2).  A scale is a whole number of tenths; the tween
\* started by setScaleAnimation is taken at its end.

\* bounds
MaxSensorX == 3

\* program constants
VELOCITY_SENSOR_SCALE_INSIDE_TOOLBOX == 7
VELOCITY_SENSOR_SCALE_OUTSIDE_TOOLBOX == 10

\* layer.isChild( node )
isChild(children, node) == \E k \in 1..Len(children) : children[k] = node

\* layer.addChild( this ) on one of the two layers of the view
addChild(view, layer, node) == [view EXCEPT ![layer] = Append(@, node)]

\* layer.removeChild( this ): fails for a node that is no child
removeChildOf(view, layer, node) ==
  IF isChild(view[layer], node)
  THEN [view EXCEPT ![layer] = SelectSeq(@, LAMBDA child : child # node)]
  ELSE [view EXCEPT !.error = "AssertionError"]

\* addToMoreToolsView
addToMoreToolsView(view) ==
  LET removed == IF isChild(view.beforeLightLayer2, "velocitySensorNode")
                 THEN removeChildOf(view, "beforeLightLayer2", "velocitySensorNode")
                 ELSE view
  IN IF ~isChild(removed.afterLightLayer2, "velocitySensorNode")
     THEN addChild(removed, "afterLightLayer2", "velocitySensorNode")
     ELSE removed

\* mutant of addToSensorPanel: the node is not taken out of the other layer
AddToSensorPanelOnly(view) ==
  IF ~isChild(view.beforeLightLayer2, "velocitySensorNode")
  THEN addChild(view, "beforeLightLayer2", "velocitySensorNode")
  ELSE view

\* addToSensorPanel
addToSensorPanel(view) ==
  LET removed == IF isChild(view.afterLightLayer2, "velocitySensorNode")
                 THEN removeChildOf(view, "afterLightLayer2", "velocitySensorNode")
                 ELSE view
  IN IF ~isChild(removed.beforeLightLayer2, "velocitySensorNode")
     THEN addChild(removed, "beforeLightLayer2", "velocitySensorNode")
     ELSE removed

\* reset, as far as the layers go
reset(view) ==
  IF isChild(view.afterLightLayer2, "velocitySensorNode")
  THEN addToSensorPanel(view)
  ELSE view

\* the position the sensor is constructed at, inside the sensor panel
InitialPosition == [x |-> 0, y |-> 0]

\* container.bounds.containsCoordinates of the center of the node: the
\* sensor panel is the column x = 0
InContainer(position) == position.x = 0

SensorPositions == [x : 0..MaxSensorX, y : 0..1]

SensorCalled(name, view, sensor) ==
  /\ moreToolsView' = view
  /\ velocitySensor' = sensor
  /\ sensorCall' = [name |-> name,
                    before |-> moreToolsView,
                    added |-> sensorCall.added \/ name \in {"addToMoreToolsView", "addToSensorPanel"}]
  /\ UNCHANGED <<rendererVars, shapeVars, meterVars, seriesVars, angleVars, bumpVars, layerVars>>

AddToMoreToolsView ==
  \A view \in {addToMoreToolsView(moreToolsView)} :
    SensorCalled("addToMoreToolsView", view, velocitySensor)

AddToSensorPanel ==
  \A view \in {addToSensorPanel(moreToolsView)} :
    SensorCalled("addToSensorPanel", view, velocitySensor)

\* reset: the scale of the toolbox, the layer, and the reset of the model
Reset ==
  \A view \in {reset(moreToolsView)} :
    SensorCalled("reset", view,
                 [velocitySensor EXCEPT !.position = InitialPosition,
                    !.scale = VELOCITY_SENSOR_SCALE_INSIDE_TOOLBOX])

\* startDrag of the drag handler
SensorStartDrag ==
  /\ ~velocitySensor.dragging
  /\ isChild(moreToolsView.beforeLightLayer2 \o moreToolsView.afterLightLayer2,
             "velocitySensorNode")
  /\ IF InContainer(velocitySensor.position)
     THEN SensorCalled("startDrag", addToMoreToolsView(moreToolsView),
                       [velocitySensor EXCEPT !.dragging = TRUE,
                          !.scale = VELOCITY_SENSOR_SCALE_OUTSIDE_TOOLBOX])
     ELSE SensorCalled("startDrag", moreToolsView,
                       [velocitySensor EXCEPT !.dragging = TRUE])

\* the drag itself: the position follows the pointer
SensorDrag ==
  \E position \in SensorPositions :
    /\ velocitySensor.dragging
    /\ position # velocitySensor.position
    /\ SensorCalled("drag", moreToolsView, [velocitySensor EXCEPT !.position = position])

\* endDrag of the drag handler
SensorEndDrag ==
  /\ velocitySensor.dragging
  /\ IF InContainer(velocitySensor.position)
     THEN SensorCalled("endDrag", addToSensorPanel(moreToolsView),
                       [position |-> InitialPosition,
                        scale |-> VELOCITY_SENSOR_SCALE_INSIDE_TOOLBOX,
                        dragging |-> FALSE])
     ELSE SensorCalled("endDrag", moreToolsView,
                       [velocitySensor EXCEPT !.dragging = FALSE])

SensorNext ==
  \/ AddToMoreToolsView
  \/ AddToSensorPanel
  \/ Reset
  \/ SensorStartDrag
  \/ SensorDrag
  \/ SensorEndDrag

\* the node after construction, a child of neither layer; the sensor panel
\* and the control panels are children of the layers already
SensorInit ==
  /\ moreToolsView = [beforeLightLayer2 |-> <<"sensorPanel">>,
                      afterLightLayer2 |-> <<"topMediumControlPanel">>,
                      error |-> "none"]
  /\ velocitySensor = [position |-> InitialPosition,
                       scale |-> VELOCITY_SENSOR_SCALE_INSIDE_TOOLBOX,
                       dragging |-> FALSE]
  /\ sensorCall = [name |-> "new", before |-> moreToolsView, added |-> FALSE]

\* the tools of the other screens as constructed; nothing is done with them
ToolsInit ==
  /\ MeterInit
  /\ SeriesInit({<<>>})
  /\ AngleInit({FALSE})
  /\ BumpInit
  /\ LayerInit
  /\ SensorInit

\* ---------------------------------------------------------- specifications
InitRenderer ==
  /\ hashMapPointArray = <<>>
  /\ map = EmptyMap
  /\ pc = "idle"
  /\ i = 1
  /\ walk = NoWalk
  /\ steps = 0
  /\ setPixels = <<>>
  /\ out = <<>>
  /\ prevOut = <<>>
  /\ frame = 0

\* well-formed rays: one ray anywhere around the stage, or two on the patch
Init ==
  /\ whiteLightRays \in {<<r>> : r \in RaySet}
                          \cup {<<r1, r2>> : r1 \in PatchRaySet, r2 \in PatchRaySet}
  /\ InitRenderer
  /\ ShapeInit({Circle(Whole(0, 0), Fin(2))}, {})
  /\ ToolsInit

Spec == Init /\ [][Next]_vars

\* one ray with a NaN or infinite mapped coordinate
InitMalformed ==
  /\ whiteLightRays \in {<<r>> : r \in MalformedRaySet}
  /\ InitRenderer
  /\ ShapeInit({Circle(Whole(0, 0), Fin(2))}, {})
  /\ ToolsInit

SpecMalformed == InitMalformed /\ [][Next]_vars

\* a prism shape and the calls made on it; nothing is painted
InitShapes ==
  /\ whiteLightRays = <<>>
  /\ InitRenderer
  /\ ShapeInit(Shapes, Rays)
  /\ ToolsInit

SpecShapes == InitShapes /\ [][ShapeNext]_vars

\* a half disc constructed with a reference point index that is no index of
\* its points, or a ray whose direction has length zero
InitShapesMalformed ==
  /\ whiteLightRays = <<>>
  /\ InitRenderer
  /\ ShapeInit(Shapes \cup BadIndexShapes, ZeroRays)
  /\ ToolsInit

SpecShapesMalformed == InitShapesMalformed /\ [][ShapeNext]_vars

\* everything but the tools, as constructed
InitOthers ==
  /\ whiteLightRays = <<>>
  /\ InitRenderer
  /\ ShapeInit({Circle(Whole(0, 0), Fin(2))}, {})

\* the intensity meter and the calls made on it
InitMeter ==
  /\ InitOthers
  /\ ToolsInit

SpecMeter == InitMeter /\ [][MeterNext]_vars

\* a series with any data points, sorted or not, and the calls made on it
InitSeries ==
  /\ InitOthers
  /\ MeterInit
  /\ SeriesInit(SampleSeqs)
  /\ AngleInit({FALSE})
  /\ BumpInit
  /\ LayerInit
  /\ SensorInit

SpecSeries == InitSeries /\ [][SeriesNext]_vars

\* the angle node, with the normal shown or not at construction
InitAngle ==
  /\ InitOthers
  /\ MeterInit
  /\ SeriesInit({<<>>})
  /\ AngleInit(BOOLEAN)
  /\ BumpInit
  /\ LayerInit
  /\ SensorInit

SpecAngle == InitAngle /\ [][AngleNext]_vars

\* the tools of the intro screen are dropped and bumped to the left
SpecBump == InitMeter /\ [][BumpNext]_vars

\* prisms are dragged into the play area and back
SpecLayer == InitMeter /\ [][LayerNext]_vars

\* the velocity sensor is taken out of its panel, dragged and put back
SpecSensor == InitMeter /\ [][SensorNext]_vars

\* ------------------------------------------------------- claim vocabulary
\* inside the output bounds [0, stageWidth] x [0, stageHeight]
InStage(p) ==
  /\ IsFin(p.x) /\ IsFin(p.y)
  /\ 0 <= p.x.v /\ p.x.v <= StageWidth
  /\ 0 <= p.y.v /\ p.y.v <= StageHeight

IsMalformed(ray) ==
  \E c \in {ray.tip.x, ray.tip.y, ray.tail.x, ray.tail.y} : ~IsFin(c)

\* the three positions one setPixel call stands for (doubled)
Positions(e) ==
  <<Point(Mul(Fin(2), e.x), Mul(Fin(2), e.y)),
    Point(Add(Mul(Fin(2), e.x), Fin(1)), Mul(Fin(2), e.y)),
    Point(Mul(Fin(2), e.x), Add(Mul(Fin(2), e.y), Fin(1)))>>

\* ---------------------------------------------------------------------- C1
\* C1: painting a single ray whose mapped tail and tip are both outside the
\* output bounds visits no pixel: the accumulation map gets no entry and
\* nothing is emitted.
C1_OffCanvasVisitsNothing ==
  (/\ Len(whiteLightRays) = 1
   /\ ~InStage(whiteLightRays[1].tip)
   /\ ~InStage(whiteLightRays[1].tail))
    => (/\ DOMAIN map = {}
        /\ hashMapPointArray = <<>>
        /\ out = <<>>)

\* ---------------------------------------------------------------------- C2
\* every color of a sequence of emitted pixels consists of numbers
AllNumbers(pixels) ==
  \A n \in 1..Len(pixels) :
    \A c \in {pixels[n].color.r, pixels[n].color.g, pixels[n].color.b,
              pixels[n].color.a} : IsFin(c)

\* C2: a second paintCanvas call with the same rays and transform emits, for
\* every pixel, the same color and alpha as the call before it (stated for
\* a first call that emitted numbers only, so that a 0 / 0 plays no part).
C2_RepaintSame ==
  (pc = "idle" /\ frame >= 2 /\ AllNumbers(prevOut)) => out = prevOut

\* ---------------------------------------------------------------------- C3
\* C3: with a NaN or infinite mapped coordinate the render pass fails fast:
\* it adds no entry to the pixel map for that segment and does not walk it.
C3_MalformedFailsFast ==
  (\E n \in 1..Len(whiteLightRays) : IsMalformed(whiteLightRays[n]))
    => (/\ DOMAIN map = {}
        /\ setPixels = <<>>)

\* ---------------------------------------------------------------------- C4
\* C4: in the compositing loop the divisor max is never 0 (all-zero channel
\* sums are divided by 1), so the normalized channels of a record with
\* finite sums are numbers.
C4_DivisorNeverZero ==
  pc = "composite" =>
    /\ i <= Len(hashMapPointArray)
         => MaxSample(map[hashMapPointArray[i]]) # Fin(0)
    /\ \A n \in 1..Len(out) :
         LET samples == map[hashMapPointArray[n]]
         IN (IsFin(samples.s0) /\ IsFin(samples.s1) /\ IsFin(samples.s2))
              => (/\ IsFin(out[n].color.r)
                  /\ IsFin(out[n].color.g)
                  /\ IsFin(out[n].color.b))

\* ---------------------------------------------------------------------- C5
\* the positions setPixel produces for the pixels inside the output bounds
StagePositions ==
  UNION {{Positions([x |-> Fin(x), y |-> Fin(y)])[n] : n \in 1..3} :
           x \in 0..StageWidth, y \in 0..StageHeight}

\* C5: the key of addToMap is collision-free inside the output bounds: two
\* distinct positions have distinct keys, and when a walk has ended every
\* record of the map holds the contributions of one position only.
C5_KeyCollisionFree ==
  /\ pc = "idle" =>
       Cardinality({KeyPoint(p.x, p.y) : p \in StagePositions})
         = Cardinality(StagePositions)
  /\ pc = "rays" =>
       \A n \in 1..Len(setPixels) :
         InStage(Point(setPixels[n].x, setPixels[n].y)) =>
           \A p \in {Positions(setPixels[n])[m] : m \in 1..3} :
             \A keyPoint \in {KeyPoint(p.x, p.y)} :
               /\ keyPoint \in DOMAIN map
               /\ map[keyPoint].x = p.x
               /\ map[keyPoint].y = p.y

\* two different pixels of the stage have been accumulated
C5_Witness ==
  pc = "rays" /\ \E n \in 1..Len(setPixels) : \E m \in 1..Len(setPixels) :
    /\ InStage(Point(setPixels[n].x, setPixels[n].y))
    /\ InStage(Point(setPixels[m].x, setPixels[m].y))
    /\ setPixels[n].x # setPixels[m].x
    /\ setPixels[n].y # setPixels[m].y
    /\ Cardinality(DOMAIN map) >= 6

\* ---------------------------------------------------------------------- C6
\* the setPixel calls made for ray n in this frame
RayLog(n) == SelectSeq(setPixels, LAMBDA e : e.ray = n)

\* paintCanvas is between two rays and the walk of ray n has ended
Walked(n) == pc = "rays" /\ n < i

InStageEnd(ray) == IF InStage(ray.tip) THEN ray.tip ELSE ray.tail

\* C6: for a ray with exactly one mapped endpoint inside the output bounds
\* the walk starts at that endpoint and runs on to the edge of the stage:
\* every pixel it sets but the last is inside, the last one is outside.
C6_StartsInBounds ==
  \A n \in 1..Len(whiteLightRays) :
    LET ray == whiteLightRays[n]
    IN (InStage(ray.tip) # InStage(ray.tail)) =>
         /\ (pc = "draw" /\ n = i /\ steps = 0)
              => Point(walk.x0, walk.y0) = InStageEnd(ray)
         /\ Walked(n) =>
              \A log \in {RayLog(n)} :
                /\ Len(log) >= 2
                /\ Point(log[1].x, log[1].y) = InStageEnd(ray)
                /\ \A m \in 1..(Len(log) - 1) : InStage(Point(log[m].x, log[m].y))
                /\ ~InStage(Point(log[Len(log)].x, log[Len(log)].y))

\* a ray whose tip is outside and whose tail is inside has been walked over
\* more than one pixel of the stage
C6_Witness ==
  /\ Len(whiteLightRays) = 1
  /\ ~InStage(whiteLightRays[1].tip)
  /\ InStage(whiteLightRays[1].tail)
  /\ Walked(1)
  /\ Len(RayLog(1)) >= 3

\* ---------------------------------------------------------------------- C7
\* the keys of the three positions of every setPixel call of a log
LogKeys(log) ==
  [n \in 1..Len(log) |->
     [m \in 1..3 |-> KeyPoint(Positions(log[n])[m].x, Positions(log[n])[m].y)]]

\* n equal terms t added to a sum
RECURSIVE AddTimes(_, _, _)
AddTimes(sum, t, n) == IF n = 0 THEN sum ELSE AddTimes(Add(sum, t), t, n - 1)

\* the value a setPixel call adds per position: brightnessFactor times
\* channel / 255 for the channels "r", "g", "b", the power fraction for "i"
Contribution(e, ch) ==
  IF ch = "i" THEN e.intensity ELSE Mul(Fin(BrightnessMilli), e.color[ch])

\* the sum of the contributions of the first n setPixel calls of a log to
\* the key k, given the keys of their positions
RECURSIVE Expected(_, _, _, _, _)
Expected(log, keys, n, k, ch) ==
  IF n = 0 THEN Fin(0)
  ELSE AddTimes(Expected(log, keys, n - 1, k, ch),
                Contribution(log[n], ch),
                Cardinality({m \in 1..3 : keys[n][m] = k}))

\* C7: after the walks and before normalization every record holds, per
\* channel, brightnessFactor times the sum of channel / 255 over the visits
\* of its position, and as intensity the unscaled sum of their power
\* fractions; a visited pixel counts once for each of its three positions.
C7_AccumulatedSums ==
  (pc = "composite" /\ i = 1) =>
    \A keys \in {LogKeys(setPixels)} :
      /\ DOMAIN map = {keys[n][m] : n \in 1..Len(setPixels), m \in 1..3}
      /\ \A k \in DOMAIN map :
           /\ map[k].s0 = Expected(setPixels, keys, Len(setPixels), k, "r")
           /\ map[k].s1 = Expected(setPixels, keys, Len(setPixels), k, "g")
           /\ map[k].s2 = Expected(setPixels, keys, Len(setPixels), k, "b")
           /\ map[k].s3 = Expected(setPixels, keys, Len(setPixels), k, "i")

\* two rays of different colors and powers have visited the same position
C7_Witness ==
  /\ pc = "composite" /\ i = 1
  /\ \E n \in 1..Len(setPixels) : \E m \in 1..Len(setPixels) :
       /\ setPixels[n].ray # setPixels[m].ray
       /\ setPixels[n].x = setPixels[m].x
       /\ setPixels[n].y = setPixels[m].y
       /\ setPixels[n].color # setPixels[m].color
       /\ setPixels[n].intensity # setPixels[m].intensity
       /\ setPixels[n].color.r # Fin(0)

\* ---------------------------------------------------------------------- C8
\* the setPixel calls of this frame that cover the position of out[n]
Covering(n) ==
  {m \in 1..Len(setPixels) :
     \E j \in 1..3 : Positions(setPixels[m])[j] = Point(out[n].x, out[n].y)}

IsPure(color, r, g, b) == color.r = Fin(r) /\ color.g = Fin(g) /\ color.b = Fin(b)

\* (1 - whiteLimit) * 255, the largest channel value that is emitted
MaxEmitted == (MaxChannelTenths * ColorMax) \div 10

\* C8: after a call, a pixel covered by a pure red and a pure green segment
\* of equal power has been emitted with red = green = the maximum emitted channel value and
\* blue = 0.
C8_RedPlusGreenIsYellow ==
  (pc = "idle" /\ Len(whiteLightRays) >= 2) =>
  \A n \in 1..Len(out) :
    \A cover \in {Covering(n)} :
      (\E m1 \in cover : \E m2 \in cover :
         /\ cover = {m1, m2}
         /\ setPixels[m1].ray # setPixels[m2].ray
         /\ IsPure(setPixels[m1].color, ColorMax, 0, 0)
         /\ IsPure(setPixels[m2].color, 0, ColorMax, 0)
         /\ setPixels[m1].intensity = setPixels[m2].intensity)
        => (/\ out[n].color.r = Fin(MaxEmitted)
            /\ out[n].color.g = Fin(MaxEmitted)
            /\ out[n].color.b = Fin(0))

\* a pixel covered by one red and one green ray of equal power was emitted
C8_Witness ==
  pc = "idle" /\ \E n \in 1..Len(out) :
    \E m1 \in Covering(n) : \E m2 \in Covering(n) :
      /\ Covering(n) = {m1, m2}
      /\ setPixels[m1].ray # setPixels[m2].ray
      /\ IsPure(setPixels[m1].color, ColorMax, 0, 0)
      /\ IsPure(setPixels[m2].color, 0, ColorMax, 0)
      /\ setPixels[m1].intensity = setPixels[m2].intensity

\* ---------------------------------------------------------------------- C9
IsChannel(c) == IsFin(c) /\ 0 <= c.v /\ c.v <= ColorMax

\* C9: every pixel emitted for rays with channels in 0..255 and power
\* fractions in [0,1] has its three channels in [0, (1 - 0.2) * 255] and an
\* alpha in [0,1] whose square is min(1, accumulated intensity * max).
C9_EmittedRanges ==
  pc = "composite" =>
    \A n \in 1..Len(out) :
      (\A m \in Covering(n) :
         /\ IsChannel(setPixels[m].color.r)
         /\ IsChannel(setPixels[m].color.g)
         /\ IsChannel(setPixels[m].color.b)
         /\ IsFin(setPixels[m].intensity)
         /\ 0 <= setPixels[m].intensity.v
         /\ setPixels[m].intensity.v <= PowerDenom)
        => \A samples \in {map[hashMapPointArray[n]]} :
             /\ \A c \in {out[n].color.r, out[n].color.g, out[n].color.b} :
                  IsFin(c) /\ 0 <= c.v /\ c.v <= MaxEmitted
             /\ IsFin(out[n].color.a)
             /\ 0 <= out[n].color.a.v
             /\ out[n].color.a.v <= AlphaDenom
             /\ out[n].color.a.v =
                  (IF samples.s3.v * MaxSample(samples).v > AlphaDenom
                   THEN AlphaDenom
                   ELSE samples.s3.v * MaxSample(samples).v)

\* --------------------------------------------------------------------- C10
\* C10: no accumulation state is carried between frames: hashMapPointArray
\* is empty before and after every paintCanvas call, and during a call it
\* lists exactly the keys of that call's map, each once.
C10_KeyListPerFrame ==
  /\ pc = "idle" => hashMapPointArray = <<>>
  /\ pc # "idle" =>
       /\ {hashMapPointArray[n] : n \in 1..Len(hashMapPointArray)} = DOMAIN map
       /\ Len(hashMapPointArray) = Cardinality(DOMAIN map)

\* a call that created keys has returned, and a later call is in progress
\* with keys of its own
C10_Witness ==
  /\ frame >= 2
  /\ pc = "composite"
  /\ prevOut # <<>>
  /\ Len(hashMapPointArray) >= 3

\* --------------------------------------------------------------------- C11
\* the larger of the two spans of a call of draw
MaxSpan(w) == IF w.dx.v >= w.dy.v THEN w.dx.v ELSE w.dy.v

\* two consecutive pixels of a walk are 8-adjacent
Adjacent(a, b) ==
  /\ AbsInt(a.x.v - b.x.v) <= 1
  /\ AbsInt(a.y.v - b.y.v) <= 1
  /\ <<a.x, a.y>> # <<b.x, b.y>>

\* the pixels draw has visited for a call with locals w: it starts at
\* (x0, y0), stops at the first pixel that is (x1, y1) or out of bounds,
\* steps to an 8-adjacent pixel each pass, and with both endpoints in bounds
\* it ends at (x1, y1) after max(|x1 - x0|, |y1 - y0|) + 1 pixels
WalkShape(log, w) ==
  /\ Len(log) >= 1
  /\ log[1].x = w.x0 /\ log[1].y = w.y0
  /\ \A k \in 1..(Len(log) - 1) :
       /\ InStage(Point(log[k].x, log[k].y))
       /\ <<log[k].x, log[k].y>> # <<w.x1, w.y1>>
       /\ Adjacent(log[k], log[k + 1])
  /\ \A last \in {log[Len(log)]} :
       /\ \/ <<last.x, last.y>> = <<w.x1, w.y1>>
          \/ ~InStage(Point(last.x, last.y))
       /\ (InStage(Point(w.x0, w.y0)) /\ InStage(Point(w.x1, w.y1))) =>
            /\ <<last.x, last.y>> = <<w.x1, w.y1>>
            /\ Len(log) = MaxSpan(w) + 1

\* C11: draw( x0, y0, x1, y1 ) terminates for integer endpoints: a call
\* that is in its loop has made at most max(|x1 - x0|, |y1 - y0|) passes
\* without returning, so it returns after at most one pass more, and the
\* pixels of a returned call form a walk that stops on (x1, y1) or on the
\* first out-of-bounds pixel, moves to an 8-adjacent pixel each pass, and
\* with the whole line in bounds ends on (x1, y1) after
\* max(|x1 - x0|, |y1 - y0|) + 1 pixels.
C11_DrawTerminates ==
  /\ pc = "draw" => (steps <= MaxSpan(walk) /\ steps < MaxSteps)
  /\ (i > 1 /\ Walked(i - 1)) =>
       \A log \in {RayLog(i - 1)} :
         WalkShape(log, StartWalk(whiteLightRays[i - 1]))

\* a call of draw with both endpoints in bounds has returned after a walk
\* of three pixels with a diagonal step
C11_Witness ==
  /\ i > 1
  /\ Walked(i - 1)
  /\ InStage(whiteLightRays[i - 1].tip)
  /\ InStage(whiteLightRays[i - 1].tail)
  /\ \A log \in {RayLog(i - 1)} :
       /\ Len(log) = 3
       /\ \E k \in 1..2 : log[k].x # log[k + 1].x /\ log[k].y # log[k + 1].y

\* --------------------------------------------------------------------- C12
\* the operations every shape variant has to support, and the outline
SharedOperations ==
  {"getTranslatedInstance", "getRotatedInstance", "containsPoint",
   "getRotationCenter", "getIntersections", "getReferencePoint", "toShape"}

\* C12: every shape variant supports the whole shared operation set: no
\* call of a shared operation or of toShape on a Circle or a SemiCircle
\* fails because the instance has no such function.
C12_SharedOperationSet ==
  call.name \in SharedOperations => result.error # "TypeError"

\* --------------------------------------------------------------------- C13
\* an instance whose coordinates are numbers
HasNumbers(s) ==
  IF s.type = "Circle" THEN IsVector(s.center)
  ELSE \A k \in 1..Len(s.points) : IsVector(s.points[k])

\* the instance t is the instance s moved by delta
MovedBy(s, t, delta) ==
  /\ t.type = s.type
  /\ t.radius = s.radius
  /\ s.type = "Circle" => t.center = plus(s.center, delta)
  /\ s.type = "SemiCircle" =>
       /\ t.referencePointIndex = s.referencePointIndex
       /\ Len(t.points) = Len(s.points)
       /\ \A k \in 1..Len(s.points) : t.points[k] = plus(s.points[k], delta)

\* C13: getTranslatedInstance( delta ), called with one delta vector on a
\* Circle or a SemiCircle, returns a new instance whose center (Circle) or
\* every defining point (SemiCircle) is the original plus delta, with the
\* radius and the reference point index unchanged, and leaves the receiver
\* as it was.
C13_TranslatedByDelta ==
  (call.name = "getTranslatedInstance" /\ HasNumbers(before)) =>
    /\ result.error = "none"
    /\ MovedBy(before, result.value, call.delta)
    /\ receiver = before

\* --------------------------------------------------------------------- C14
\* two instances have the same center or defining points, the same radius
\* and the same reference point
SameShape(s, t) ==
  /\ t.type = s.type
  /\ t.radius = s.radius
  /\ s.type = "Circle" =>
       /\ t.center = s.center
       /\ CircleGetReferencePoint(t) = CircleGetReferencePoint(s)
  /\ s.type = "SemiCircle" =>
       /\ t.points = s.points
       /\ SemiCircleGetReferencePoint(t) = SemiCircleGetReferencePoint(s)

\* C14: for a Circle or SemiCircle s and a delta d,
\* s.getTranslatedInstance( d ).getTranslatedInstance( -d ) has the same
\* defining points (center), radius and reference point as s.
C14_TranslationRoundTrip ==
  (call.name = "getTranslatedInstance" /\ HasNumbers(before)) =>
    SameShape(before, getTranslatedInstance(shape, negated(call.delta)).value)

\* --------------------------------------------------------------------- C15
\* the squared distance of two points
Distance2(a, b) == Dot(minus(a, b), minus(a, b))

\* C15: for a SemiCircle s, an angle a and a pivot p,
\* s.getRotatedInstance( a, p ).getRotatedInstance( -a, p ) has the defining
\* points of s; each rotated copy keeps the radius and the reference point
\* index, keeps the distance of every defining point to p, and the receiver
\* is not modified.
C15_RotationRoundTrip ==
  (call.name = "getRotatedInstance" /\ before.type = "SemiCircle") =>
    \A back \in {SemiCircleGetRotatedInstance(shape, -call.angle, call.point)} :
      /\ result.error = "none"
      /\ receiver = before
      /\ back.receiver = shape
      /\ back.value.points = before.points
      /\ \A copy \in {shape, back.value} :
           /\ copy.type = "SemiCircle"
           /\ copy.radius = before.radius
           /\ copy.referencePointIndex = before.referencePointIndex
           /\ Len(copy.points) = Len(before.points)
           /\ \A k \in 1..Len(before.points) :
                Distance2(copy.points[k], call.point)
                  = Distance2(before.points[k], call.point)

\* a half disc has been turned a quarter turn about a pivot that is not
\* its rotation center, which moved both defining points
C15_Witness ==
  /\ call.name = "getRotatedInstance"
  /\ before.type = "SemiCircle"
  /\ call.angle = 1
  /\ call.point # SemiCircleGetRotationCenter(before)
  /\ call.point # Whole(0, 0)
  /\ \A k \in 1..2 : shape.points[k] # before.points[k]

C17_BadIndexFailsFast ==
  (/\ call.name = "getReferencePoint"
   /\ shape.type = "SemiCircle"
   /\ shape.referencePointIndex \notin {0, 1})
    => (result.error = "InvalidArgument" /\ result.value # Undefined)

\* --------------------------------------------------------------------- C18
\* C18: getIntersections with a ray whose direction has length zero is
\* rejected with InvalidArgument, by Circle and by SemiCircle (stated for
\* shapes whose construction was valid).
C18_ZeroDirectionRejected ==
  (/\ call.name = "getIntersections"
   /\ call.ray.directionUnitVector = Whole(0, 0)
   /\ shape.type = "SemiCircle" => shape.referencePointIndex \in {0, 1})
    => result.error = "InvalidArgument"

\* --------------------------------------------------------------------- C19
\* C19: every intersection returned by getIntersections (chord or arc of a
\* SemiCircle, boundary of a Circle) has a unit normal n with
\* dot(n, ray direction) <= 0.
C19_NormalOpposesRay ==
  (call.name = "getIntersections" /\ result.error = "none") =>
    \A k \in 1..Len(result.value) :
      \A n \in {result.value[k].unitNormal} :
        /\ SurdSign(n.ax, n.bx, n.d) # 0 \/ SurdSign(n.ay, n.by, n.d) # 0
        /\ SurdDotSign(n, call.ray.directionUnitVector) <= 0

\* a half disc has returned a chord and an arc intersection, the arc normal
\* being the radial direction turned round
C19_Witness ==
  /\ call.name = "getIntersections"
  /\ shape.type = "SemiCircle"
  /\ Len(result.value) = 2
  /\ SurdDotSign(SurdMinus(result.value[2].point, toShape(shape).center),
                 call.ray.directionUnitVector) > 0

\* --------------------------------------------------------------------- C20
\* the surd point h lies on the segment between the two points of s
OnChord(s, h) ==
  \A diff \in {minus(s.points[2], s.points[1])} :
    \A v \in {SurdMinus(h, s.points[1])} :
      /\ SurdSign(v.ax * diff.y.v - v.ay * diff.x.v,
                  v.bx * diff.y.v - v.by * diff.x.v, v.d) = 0
      /\ SurdDotSign(v, diff) >= 0
      /\ SurdDotSign(SurdMinus(h, s.points[2]), diff) <= 0

\* the surd point h lies on the half circle of s
OnArc(s, h) ==
  \A outline \in {toShape(s)} :
    \A v \in {SurdMinus(h, outline.center)} :
      /\ SurdSign(v.ax * v.ax + v.ay * v.ay + (v.bx * v.bx + v.by * v.by) * v.d
                    - v.den * v.den * outline.radius.v * outline.radius.v,
                  2 * (v.ax * v.bx + v.ay * v.by), v.d) = 0
      /\ ContainsAngle(outline.center, outline.start, [point |-> h])

\* the half-line of the ray meets neither the chord nor the arc of s
Misses(s, ray) ==
  /\ LineIntersection(s.points[1], s.points[2], TrueRay(ray)) = <<>>
  /\ \A outline \in {toShape(s)} :
       ArcIntersection(outline.center, outline.start, outline.radius,
                       TrueRay(ray)).hits = <<>>

\* C20: SemiCircle.getIntersections returns 0, 1 or 2 intersections for any
\* ray: at most one on the chord and at most one on the arc, the one on the
\* chord listed before the one on the arc; a ray that misses both yields an
\* empty list and no error (stated for the rays whose tail plus direction is
\* not the origin, so that the thrown error of that case plays no part).
C20_ChordThenArc ==
  (/\ call.name = "getIntersections"
   /\ shape.type = "SemiCircle"
   /\ plus(call.ray.tail, call.ray.directionUnitVector) # Whole(0, 0)) =>
    /\ result.error = "none"
    /\ Len(result.value) <= 2
    /\ Len(result.value) = 1 =>
         \/ OnChord(shape, result.value[1].point)
         \/ OnArc(shape, result.value[1].point)
    /\ Len(result.value) = 2 =>
         /\ OnChord(shape, result.value[1].point)
         /\ OnArc(shape, result.value[2].point)
    /\ Misses(shape, call.ray) => result.value = <<>>

\* --------------------------------------------------------------------- C24
\* the surd point h equals tail + t * directionUnitVector for some t >= 0
OnHalfLine(ray, h) ==
  \A v \in {SurdMinus(h, ray.tail)} :
    \A dir \in {ray.directionUnitVector} :
      /\ SurdSign(v.ax * dir.y.v - v.ay * dir.x.v,
                  v.bx * dir.y.v - v.by * dir.x.v, v.d) = 0
      /\ SurdDotSign(v, dir) >= 0

\* C24: every intersection point returned by SemiCircle.getIntersections
\* lies on the half-line of the input ray (tail + t * direction, t >= 0),
\* for any tail position.
C24_PointsOnInputRay ==
  (/\ call.name = "getIntersections"
   /\ shape.type = "SemiCircle"
   /\ result.error = "none") =>
    \A k \in 1..Len(result.value) : OnHalfLine(call.ray, result.value[k].point)

\* --------------------------------------------------------------------- C29
\* C29: paintCanvas does not modify its input: after the call every ray of
\* whiteLightRays has the color and the power fraction it was drawn with
\* (those it had before the call; tail and tip are never assigned).
C29_RaysUnmodified ==
  (pc = "idle" /\ frame > 0) =>
    \A k \in 1..Len(setPixels) :
      /\ whiteLightRays[setPixels[k].ray].color = setPixels[k].color
      /\ whiteLightRays[setPixels[k].ray].powerFraction = setPixels[k].intensity

\* --------------------------------------------------------------------- C21
\* the sum of the values of the hits among the readings
RECURSIVE SumOfHits(_)
SumOfHits(readings) ==
  IF readings = <<>> THEN 0
  ELSE (IF Head(readings).hit THEN Head(readings).value ELSE 0)
         + SumOfHits(Tail(readings))

\* C21: after any sequence of addRayReading calls since the last
\* clearRayReadings the reading is Reading.MISS when none of the added
\* readings is a hit, and otherwise a Reading whose value is the sum of the
\* values of all added hit readings.
C21_ReadingIsSumOfHits ==
  IF \A k \in 1..Len(added) : ~added[k].hit
  THEN meter.reading = MISS
  ELSE meter.reading = Reading(SumOfHits(added))

\* --------------------------------------------------------------------- C22
\* C22: clearRayReadings empties the accumulated readings and sets the
\* reading to Reading.MISS, leaving the sensor and the body where they were;
\* the accumulated readings are always exactly those added since the last
\* clear, so that a reading added before it is in no later sum.
C22_ClearForgetsReadings ==
  /\ meter.rayReadings = added
  /\ meterCall.name = "clearRayReadings" =>
       /\ meter.rayReadings = <<>>
       /\ meter.reading = MISS
       /\ meter.sensorPosition = meterBefore.sensorPosition
       /\ meter.bodyPosition = meterBefore.bodyPosition

\* the meter has been cleared while it held a hit and a miss, away from
\* where it was constructed
C22_Witness ==
  /\ meterCall.name = "clearRayReadings"
  /\ \E k \in 1..Len(meterBefore.rayReadings) : meterBefore.rayReadings[k].hit
  /\ \E k \in 1..Len(meterBefore.rayReadings) : ~meterBefore.rayReadings[k].hit
  /\ meter.sensorPosition # [x |-> 0, y |-> 0]
  /\ meter.bodyPosition # meter.sensorPosition

\* --------------------------------------------------------------------- C23
\* the samples are in order of time
SortedByTime(samples) ==
  \A j, k \in 1..Len(samples) : j < k => samples[j].time <= samples[k].time

\* C23: keepLastSamples( minTime ) removes exactly the leading run of
\* samples with time < minTime (stopping at the first sample with
\* time >= minTime) and keeps all later samples in their order; for a series
\* sorted by time no remaining sample has time < minTime; a second call with
\* the same minTime changes nothing; an empty series is left untouched.
C23_KeepLastSamples ==
  seriesCall.name = "keepLastSamples" =>
    /\ \E n \in 0..Len(seriesBefore) :
         /\ \A k \in 1..n : seriesBefore[k].time < seriesCall.minTime
         /\ n < Len(seriesBefore) => seriesBefore[n + 1].time >= seriesCall.minTime
         /\ series = [k \in 1..(Len(seriesBefore) - n) |-> seriesBefore[n + k]]
    /\ SortedByTime(seriesBefore) =>
         \A k \in 1..Len(series) : series[k].time >= seriesCall.minTime
    /\ keepLastSamples(series, seriesCall.minTime) = series
    /\ seriesBefore = <<>> => series = <<>>

\* a leading sample was removed from a series that is not sorted, and a
\* later sample with time < minTime was kept behind the sample the loop
\* stopped at
C23_Witness ==
  /\ seriesCall.name = "keepLastSamples"
  /\ Len(series) < Len(seriesBefore)
  /\ Len(series) >= 2
  /\ series[1].time >= seriesCall.minTime
  /\ \E k \in 2..Len(series) : series[k].time < seriesCall.minTime

\* --------------------------------------------------------------------- C25
\* there is a refracted ray with a power fraction of at least 1E-6
RefractedShown == Len(rays) > 2 /\ rays[3].powerFraction >= MinPower

ShowsRays(node) ==
  /\ node.incomingText = rays[1].angle + 90
  /\ node.reflectedText = rays[1].angle + 90
  /\ node.upperArcShape.radius = (IF rays[1].angle + 90 >= 1 THEN CIRCLE_RADIUS ELSE 0)
  /\ node.upperArcShape.radius > 0 =>
       /\ node.upperArcShape.startAngle = 180 - rays[1].angle
       /\ node.upperArcShape.endAngle = -rays[2].angle
  /\ node.refractedText = (IF Len(rays) > 2 THEN rays[3].angle + 90 ELSE 90)
  /\ node.lowerArcShape.radius > 0 =>
       node.lowerArcShape.endAngle = 90 - node.refractedText
  /\ node.refractedVisible = RefractedShown
  /\ node.lowerArcVisible = RefractedShown
  /\ node.lowerMarkVisible = (~showNormal /\ RefractedShown)
  /\ node.upperMarkVisible = ~showNormal

\* C26: after every add or removal in the rays list and every change of
\* showNormal the dirty flag is true; the next step callback that runs with
\* at least two rays recomputes arcs and readouts from the current rays and
\* clears the flag; a step callback that runs with the flag clear changes
\* nothing; so whenever the flag is clear the node shows the current rays.
C26_RedrawsWhenDirty ==
  /\ angleEvent \in {"added", "removed", "showNormal"} => angleNode.dirty
  /\ (angleEvent = "step" /\ angleBefore.dirty /\ Len(rays) >= 2) =>
       (~angleNode.dirty /\ ShowsRays(angleNode))
  /\ (angleEvent = "step" /\ ~(angleBefore.dirty /\ Len(rays) >= 2)) =>
       angleNode = angleBefore
  /\ ~angleNode.dirty => (Len(rays) >= 2 /\ ShowsRays(angleNode))

\* a step has redrawn readouts that showed other rays before
C26_Witness ==
  /\ angleEvent = "step"
  /\ angleBefore.dirty
  /\ ~angleNode.dirty
  /\ angleBefore.incomingText \notin {-1, angleNode.incomingText}
  /\ angleBefore.refractedVisible # angleNode.refractedVisible

\* --------------------------------------------------------------------- C27
\* the passes bumpLeft can need at most: until the right edge of the node
\* is left of the panels
MaxBumps(node, start) ==
  IF start.x + HalfSize(node) < TopMediumControlPanel.minX THEN 0
  ELSE (start.x + HalfSize(node) - TopMediumControlPanel.minX) \div BumpDelta + 1

\* C27: bumpLeft terminates for every start position, and when it returns
\* the bounds of the node intersect neither the top nor the bottom medium
\* control panel; it only moves the position in the negative x direction in
\* steps of 20 view units and never changes y.
C27_BumpLeftClearsPanels ==
  /\ bump.steps <= MaxBumps(bump.node, bump.start)
  /\ bump.position.y = bump.start.y
  /\ bump.position.x = bump.start.x - BumpDelta * bump.steps
  /\ bump.pc = "returned" =>
       /\ ~intersectsBounds(GlobalBounds(bump.node, bump.position),
                            TopMediumControlPanel)
       /\ ~intersectsBounds(GlobalBounds(bump.node, bump.position),
                            BottomMediumControlPanel)

\* the body of the meter was dropped behind the bottom panel only and has
\* been moved left more than once
C27_Witness ==
  /\ bump.pc = "returned"
  /\ bump.node = "bodyNode"
  /\ bump.steps >= 2
  /\ ~intersectsBounds(GlobalBounds(bump.node, bump.start), TopMediumControlPanel)

\* --------------------------------------------------------------------- C28
\* C28: after any sequence of prism additions and removals the prism layer
\* holds exactly one PrismNode per prism currently in the model (removing
\* one prism removes the node of that prism and no other).
C28_LayerMatchesPrisms ==
  /\ Len(prismLayer) = Len(prisms)
  /\ \A item \in 1..MaxPrisms :
       Cardinality({k \in 1..Len(prismLayer) : prismLayer[k] = item})
         = Cardinality({k \in 1..Len(prisms) : prisms[k] = item})

\* --------------------------------------------------------------------- C30
\* how often the node is among the children
TimesChild(children) ==
  Cardinality({k \in 1..Len(children) : children[k] = "velocitySensorNode"})

\* C30: after any sequence of addToMoreToolsView, addToSensorPanel and reset
\* calls, starting from a node that is a child of neither layer, the node is
\* never a child of both beforeLightLayer2 and afterLightLayer2; it is a
\* child of exactly one of them after the first call that adds it; no call
\* removes it from a layer it is not in or adds it twice; after reset it is
\* never in afterLightLayer2.
C30_OneLayerAtATime ==
  /\ TimesChild(moreToolsView.beforeLightLayer2)
       + TimesChild(moreToolsView.afterLightLayer2) <= 1
  /\ sensorCall.added =>
       TimesChild(moreToolsView.beforeLightLayer2)
         + TimesChild(moreToolsView.afterLightLayer2) = 1
  /\ moreToolsView.error = "none"
  /\ sensorCall.name = "reset" => TimesChild(moreToolsView.afterLightLayer2) = 0

\* reset has moved the node from the play area back to the sensor panel
C30_Witness ==
  /\ sensorCall.name = "reset"
  /\ TimesChild(sensorCall.before.afterLightLayer2) = 1
  /\ TimesChild(moreToolsView.beforeLightLayer2) = 1

====
